---------------------------- MODULE Spec2Model ----------------------------
(***************************************************************************)
(* Verification model of parts of wxWidgets:                               *)
(*   - wxLocaleIdent / wxUILocale  (src/common/uilocale.cpp)               *)
(*   - wxFileName                  (src/common/filename.cpp)               *)
(*   - wxButton default handling   (src/msw/button.cpp)                    *)
(*   - wxFSVolumeBase              (src/msw/volume.cpp)                    *)
(* Strings are sequences of one-character strings, so that splitting,      *)
(* case conversion and searching are computed and not assumed.             *)
(***************************************************************************)
EXTENDS Integers, Sequences, FiniteSets, TLC

VARIABLES
    \* ---- wxLocaleIdent::FromTag / GetTag -------------------------------
    tagPc,        \* position of the caller: "start", "build", "tagged", "parsed"
    tagParts,     \* the subtags the input tag was assembled from
    tag,          \* the tag string handed to FromTag
    srcId,        \* the identifier built with the setters (round trip)
    locId,        \* the identifier returned by FromTag
    \* ---- wxFileName::SplitPath ----------------------------------------
    spPc,         \* "start" or "done"
    spNative,     \* the format GetFormat(wxPATH_NATIVE) gives in this build
    spFormat,     \* the format argument
    spFullpath,   \* the fullpathWithVolume argument
    spOut,        \* the output parameters
    \* ---- wxLocaleIdent::GetBestMatch ----------------------------------
    gbPc,         \* "start" or "done"
    gbDesired,    \* the desired tags, in order of preference
    gbSupported,  \* the supported tags
    gbFound,      \* what GetMatchDistance gives for tags without wildcards
    gbSameRegion, \* what SameRegionGroup gives
    gbOut,        \* the locals of GetBestMatch at its return
    \* ---- wxButton: default button handling -----------------------------
    btnTlw,       \* the button's top level window: its kind, whether it is
                  \* being deleted and whether it has a parent frame
    btnDefault,   \* m_winDefault of each top level window
    btnTmpDefault, \* m_winTmpDefault of each top level window
    btnDefId,     \* the id last sent to each window with DM_SETDEFID
    btnStyle,     \* the button style of each button
    btnAppActive, \* wxTheApp->IsActive()
    btnFocused,   \* the button that got WM_SETFOCUS and no WM_KILLFOCUS since
    btnLast,      \* the last message handled or call made
    \* ---- wxFSVolumeBase::GetVolumes / CancelSearch ---------------------
    s_cancelSearch, \* the flag CancelSearch sets
    volPc,        \* where the thread running GetVolumes is
    volMountedOnly, \* flagsSet & wxFS_VOL_MOUNTED: one pass only
    volPass,      \* the BuildListFromNN call of BuildRemoteList: 1 or 2
    volStack,     \* the active BuildListFromNN calls, the innermost last; of
                  \* each the number of resources it fetched after the cancel
    volRes,       \* the result of the last WNetEnumResource call
    volCount,     \* the number of entries added to the lists
    volRace,      \* CancelSearch wrote the flag and the thread running
                  \* GetVolumes made no step since: <<TRUE, value before>>
    volCancelled, \* CancelSearch was called during the enumeration
    volLate,      \* a resource fetched after the cancel was added or entered
    volDiscarded, \* a resource fetched after the cancel was discarded
    \* ---- wxUILocale -----------------------------------------------------
    ms_current,   \* wxUILocale::ms_current: its m_impl
    wxUILocaleIsSet,
    uiSupported,  \* the languages the system has locales for
    uiUserDefault, \* whether CreateUserDefault gives a locale
    uiUsed,       \* UseDefault or UseLocaleName has returned true
    uiLast,       \* the last call and what it returned
    \* ---- wxFileName::GetTempDir ----------------------------------------
    tdPc,         \* "start" or "done"
    tdNative,     \* the build: "DOS" (__WINDOWS__) or "UNIX" (__UNIX_LIKE__)
    tdEnv,        \* the values of TMPDIR, TMP and TEMP, empty if not set
    tdExists,     \* what DirExists gives for the value of each variable
    tdSystem,     \* what GetTempPath gives, empty if it fails
    tdTmpExists,  \* whether the directory /tmp exists
    tdOut,        \* the returned directory
    \* ---- wxFileName::Normalize -----------------------------------------
    nzPc,         \* "start" or "done"
    nzNative,     \* the native format of the build
    nzFormat,     \* the format argument
    nzFlags,      \* the flags argument, a set of wxPATH_NORM_ flags
    nzCwd,        \* the cwd argument
    nzBefore,     \* the wxFileName before the call
    nzObj,        \* the wxFileName
    \* ---- wxFileName::MakeRelativeTo ------------------------------------
    mrPc,         \* "start" or "done"
    mrNative,     \* the native format of the build
    mrFormat,     \* the format argument
    mrPathBase,   \* the pathBase argument
    mrBefore,     \* the wxFileName before the call
    mrObj,        \* the wxFileName
    mrCanon,      \* the wxFileName where MakeRelativeTo compares the volumes
    mrBase,       \* fnBase where MakeRelativeTo compares the volumes
    mrRet,        \* the returned value
    \* ---- wxWebRequestWinHTTP -------------------------------------------
    wrMode,       \* "sync" (Execute) or "async" (Start and the callbacks)
    wrPc,         \* where Execute is, or whether Start was called
    wrState,      \* the state of the request
    wrResult,     \* the state of the result Execute returned, "none" before
    m_dataSize,   \* the size of the request data
    m_dataWritten, \* how much of the data was written
    wrStreamPos,  \* the position of m_dataStream
    m_dataWriteBuffer, \* the bytes of the write buffer, 0 for none of the data
    wrWire,       \* the bytes written since the request was last sent
    m_tryCredentialsFromURL,
    m_cancelled,  \* what WasCancelled() gives
    wrPending,    \* the operation WinHTTP has to call back for
    wrSends,      \* how many times the request was sent
    wrUrlTries,   \* how many times the credentials of the URL were set
    wrShort,      \* whether a write wrote less than it was asked to
    wrLast,       \* the last response or error handled
    \* wxGStreamerMediaBackend
    gstEvents,    \* the media events sent and queued so far, in order
    m_last_state,
    m_loaded,
    gstEos,       \* how many end-of-stream callbacks there were
    gstHandler    \* what the handlers did with the last stop event sent

tagVars == <<tagPc, tagParts, tag, srcId, locId>>
spVars == <<spPc, spNative, spFormat, spFullpath, spOut>>
gbVars == <<gbPc, gbDesired, gbSupported, gbFound, gbSameRegion, gbOut>>
btnVars == <<btnTlw, btnDefault, btnTmpDefault, btnDefId, btnStyle, btnAppActive,
             btnFocused, btnLast>>

volVars == <<s_cancelSearch, volPc, volMountedOnly, volPass, volStack, volRes,
             volCount, volRace, volCancelled, volLate, volDiscarded>>

uiVars == <<ms_current, wxUILocaleIsSet, uiSupported, uiUserDefault, uiUsed, uiLast>>

tdVars == <<tdPc, tdNative, tdEnv, tdExists, tdSystem, tdTmpExists, tdOut>>

nzVars == <<nzPc, nzNative, nzFormat, nzFlags, nzCwd, nzBefore, nzObj>>
mrVars == <<mrPc, mrNative, mrFormat, mrPathBase, mrBefore, mrObj, mrCanon, mrBase, mrRet>>

wrVars == <<wrMode, wrPc, wrState, wrResult, m_dataSize, m_dataWritten, wrStreamPos, m_dataWriteBuffer, wrWire, m_tryCredentialsFromURL, m_cancelled, wrPending, wrSends, wrUrlTries, wrShort, wrLast>>

gstVars == <<gstEvents, m_last_state, m_loaded, gstEos, gstHandler>>

vars == <<tagVars, spVars, gbVars, btnVars, volVars, uiVars, tdVars, nzVars, mrVars, wrVars, gstVars>>

-----------------------------------------------------------------------------
(* wxString helpers                                                        *)

LowerAlpha == <<"a","b","c","d","e","f","g","h","i","j","k","l","m",
                "n","o","p","q","r","s","t","u","v","w","x","y","z">>
UpperAlpha == <<"A","B","C","D","E","F","G","H","I","J","K","L","M",
                "N","O","P","Q","R","S","T","U","V","W","X","Y","Z">>
Digits == {"0","1","2","3","4","5","6","7","8","9"}

IsUpperCh(c) == \E i \in 1..26 : UpperAlpha[i] = c
IsLowerCh(c) == \E i \in 1..26 : LowerAlpha[i] = c
IsAlphaCh(c) == IsUpperCh(c) \/ IsLowerCh(c)
isdigit(c) == c \in Digits

ToLowerCh(c) == IF IsUpperCh(c)
                THEN LowerAlpha[CHOOSE i \in 1..26 : UpperAlpha[i] = c] ELSE c
ToUpperCh(c) == IF IsLowerCh(c)
                THEN UpperAlpha[CHOOSE i \in 1..26 : LowerAlpha[i] = c] ELSE c

Lower(s) == [i \in 1..Len(s) |-> ToLowerCh(s[i])]
Upper(s) == [i \in 1..Len(s) |-> ToUpperCh(s[i])]
Capitalize(s) == [i \in 1..Len(s) |->
                     IF i = 1 THEN ToUpperCh(s[i]) ELSE ToLowerCh(s[i])]
CmpNoCaseEq(a, b) == Lower(a) = Lower(b)

\* position of the first / last occurrence of a character of set cs, 0 if none
FindFirstOf(s, cs) ==
    IF \E i \in 1..Len(s) : s[i] \in cs
    THEN CHOOSE i \in 1..Len(s) : s[i] \in cs /\ \A j \in 1..(i-1) : s[j] \notin cs
    ELSE 0
FindLastOf(s, cs) ==
    IF \E i \in 1..Len(s) : s[i] \in cs
    THEN CHOOSE i \in 1..Len(s) : s[i] \in cs /\ \A j \in (i+1)..Len(s) : s[j] \notin cs
    ELSE 0
FindLastNotOf(s, cs) ==
    IF \E i \in 1..Len(s) : s[i] \notin cs
    THEN CHOOSE i \in 1..Len(s) : s[i] \notin cs /\ \A j \in (i+1)..Len(s) : s[j] \in cs
    ELSE 0

Left(s, n) == SubSeq(s, 1, IF n > Len(s) THEN Len(s) ELSE n)
Mid(s, from) == SubSeq(s, from, Len(s))

\* BeforeFirst(ch, &rest) as the pair <<before, rest>>
BeforeFirst(s, ch) ==
    LET p == FindFirstOf(s, {ch})
    IN IF p = 0 THEN <<s, <<>> >> ELSE <<SubSeq(s, 1, p-1), Mid(s, p+1)>>
\* BeforeLast(ch, &rest) as the pair <<before, rest>>
BeforeLast(s, ch) ==
    LET p == FindLastOf(s, {ch})
    IN IF p = 0 THEN << <<>>, s>> ELSE <<SubSeq(s, 1, p-1), Mid(s, p+1)>>

Replace(s, old, new) == [i \in 1..Len(s) |-> IF s[i] = old THEN new ELSE s[i]]

\* wxSplit(str, sep, '\0'): all tokens, empty ones included; none for ""
RECURSIVE wxSplit(_, _)
wxSplit(s, sep) ==
    IF s = <<>> THEN <<>>
    ELSE LET p == FindFirstOf(s, {sep})
         IN IF p = 0 THEN <<s>>
            ELSE IF p = Len(s) THEN <<SubSeq(s, 1, p-1), <<>> >>
            ELSE <<SubSeq(s, 1, p-1)>> \o wxSplit(Mid(s, p+1), sep)

RECURSIVE JoinFrom(_, _, _)
JoinFrom(parts, i, sep) ==
    IF i > Len(parts) THEN <<>>
    ELSE IF i = Len(parts) THEN parts[i]
    ELSE parts[i] \o <<sep>> \o JoinFrom(parts, i+1, sep)


-----------------------------------------------------------------------------
(* wxLocaleIdent                                                           *)

validCharsAlpha == {LowerAlpha[i] : i \in 1..26} \cup {UpperAlpha[i] : i \in 1..26}
validCharsAlnum == validCharsAlpha \cup Digits
validCharsModExt == validCharsAlnum \cup {"-"}

\* find_first_not_of(valid) == npos
OnlyChars(s, valid) == \A i \in 1..Len(s) : s[i] \in valid

EmptyIdent == [m_language |-> <<>>, m_region |-> <<>>, m_script |-> <<>>,
               m_charset |-> <<>>, m_modifier |-> <<>>, m_extension |-> <<>>,
               m_sortorder |-> <<>>, m_tag |-> <<>>]

IsDefaultCLocale(locale) ==
    \/ CmpNoCaseEq(locale, <<"C">>)
    \/ CmpNoCaseEq(locale, <<"P","O","S","I","X">>)

\* the script alias table of wxUILocaleImpl: lower-case alias -> ISO 15924 name
ScriptAliases == { << <<"l","a","t","i","n">>, <<"L","a","t","n">> >>,
                   << <<"c","y","r","i","l","l","i","c">>, <<"C","y","r","l">> >> }
GetScriptNameFromAlias(alias) ==
    IF \E e \in ScriptAliases : e[1] = alias
    THEN (CHOOSE e \in ScriptAliases : e[1] = alias)[2]
    ELSE <<>>

\* the languages database: entries in database order
LanguagesDB ==
    << [Language      |-> "wxLANGUAGE_ENGLISH",
        CanonicalName |-> <<"e","n">>,
        Description   |-> <<"E","n","g","l","i","s","h">>,
        LocaleTag     |-> <<"e","n">>],
       [Language      |-> "wxLANGUAGE_THAI",
        CanonicalName |-> <<"t","h">>,
        Description   |-> <<"T","h","a","i">>,
        LocaleTag     |-> <<"t","h">>],
       [Language      |-> "wxLANGUAGE_THAI_THAILAND",
        CanonicalName |-> <<"t","h","_","T","H">>,
        Description   |-> <<"T","h","a","i"," ","(","T","h","a","i","l","a","n","d",")">>,
        LocaleTag     |-> <<"t","h","-","T","H">>] >>

NoInfo == [Language |-> "wxLANGUAGE_UNKNOWN", CanonicalName |-> <<>>,
           Description |-> <<>>, LocaleTag |-> <<>>]

\* the loop of FindLanguageInfo over the database from entry i on; infoRet is
\* the language-only match found so far (NoInfo if none)
RECURSIVE FindLanguageLoop(_, _, _, _, _)
FindLanguageLoop(i, locale, language, languageOnly, infoRet) ==
    IF i > Len(LanguagesDB) THEN infoRet
    ELSE LET info == LanguagesDB[i]
         IN IF \/ CmpNoCaseEq(locale, info.CanonicalName)
               \/ CmpNoCaseEq(language, info.Description)
            THEN info
            ELSE IF \/ CmpNoCaseEq(locale, BeforeFirst(info.CanonicalName, "_")[1])
                    \/ CmpNoCaseEq(languageOnly, info.Description)
                 THEN FindLanguageLoop(i+1, locale, language, languageOnly,
                                       IF infoRet = NoInfo THEN info ELSE infoRet)
                 ELSE FindLanguageLoop(i+1, locale, language, languageOnly, infoRet)

FindLanguageInfo(localeOrig) ==
    IF localeOrig = <<>> THEN NoInfo
    ELSE LET locale == IF IsDefaultCLocale(localeOrig)
                       THEN <<"e","n","_","U","S">> ELSE localeOrig
             split == BeforeFirst(BeforeFirst(locale, ".")[1], "_")
             languageOnly == split[1]
             region == split[2]
             language == IF region # <<>>
                         THEN languageOnly \o <<" ","(">> \o region \o <<")">>
                         ELSE languageOnly
         IN FindLanguageLoop(1, locale, language, languageOnly, NoInfo)

\* ---- the setters ------------------------------------------------------
Language(id, language) ==
    IF IsDefaultCLocale(language)
    THEN [id EXCEPT !.m_language = Upper(language)]
    ELSE IF Len(language) \in {2, 3} /\ OnlyChars(language, validCharsAlpha)
    THEN [id EXCEPT !.m_language = Lower(language)]
    ELSE [id EXCEPT !.m_language = <<>>]

Region(id, region) ==
    IF Len(region) \in {2, 3} /\ OnlyChars(region, validCharsAlnum)
    THEN [id EXCEPT !.m_region = Upper(region)]
    ELSE [id EXCEPT !.m_region = <<>>]

Script(id, script) ==
    IF Len(script) = 4 /\ OnlyChars(script, validCharsAlpha)
    THEN [id EXCEPT !.m_script = Capitalize(script)]
    ELSE IF script # <<>>
    THEN [id EXCEPT !.m_script = GetScriptNameFromAlias(Lower(script))]
    ELSE [id EXCEPT !.m_script = <<>>]

Charset(id, charset) ==
    IF OnlyChars(charset, validCharsModExt)
    THEN [id EXCEPT !.m_charset = charset]
    ELSE [id EXCEPT !.m_charset = <<>>]

Modifier(id, modifier) ==
    IF OnlyChars(modifier, validCharsModExt)
    THEN [id EXCEPT !.m_modifier = modifier]
    ELSE [id EXCEPT !.m_modifier = <<>>]

Extension(id, extension) ==
    IF OnlyChars(extension, validCharsModExt)
    THEN [id EXCEPT !.m_extension = extension]
    ELSE id

SortOrder(id, sortorder) ==
    IF Len(sortorder) > 4 /\ OnlyChars(sortorder, validCharsAlpha)
    THEN [id EXCEPT !.m_sortorder = sortorder]
    ELSE id

valencia == <<"v","a","l","e","n","c","i","a">>

CheckLanguageVariant(id) ==
    IF id.m_modifier = valencia
    THEN Extension(id, id.m_modifier)
    ELSE IF id.m_extension = valencia /\ id.m_modifier = <<>>
    THEN Modifier(id, id.m_extension)
    ELSE id

\* ---- wxLocaleIdent::FromTag -------------------------------------------
\* 1a/1b: the POSIX modifier and charset; <<identifier, tagMain>>
FromTagPosix(tagIn) ==
    LET at == BeforeFirst(tagIn, "@")
        id1 == IF at[2] # <<>>
               THEN LET script == GetScriptNameFromAlias(at[2])
                    IN IF script # <<>> THEN Script(EmptyIdent, script)
                                        ELSE Modifier(EmptyIdent, at[2])
               ELSE EmptyIdent
        dot == BeforeFirst(at[1], ".")
        id2 == IF dot[2] # <<>> THEN Charset(id1, dot[2]) ELSE id1
    IN <<id2, dot[1]>>

\* 1c: Windows CRT language and region names
FromTagWinCRT(tagMain) ==
    LET us == BeforeFirst(tagMain, "_")
    IN IF Len(us[1]) > 3 /\ (us[2] = <<>> \/ Len(us[2]) > 3)
       THEN LET info == FindLanguageInfo(tagMain)
            IN IF info # NoInfo THEN info.LocaleTag ELSE tagMain
       ELSE tagMain

\* 1d: the Windows sort order; <<identifier, tagMain>>
FromTagSortOrder(id, tagMain) ==
    LET us == BeforeLast(tagMain, "_")
    IN IF us[1] # <<>> /\ Len(us[2]) > 4 /\
          id.m_modifier = <<>> /\ id.m_charset = <<>>
       THEN <<SortOrder(id, us[2]), us[1]>>
       ELSE <<id, tagMain>>

\* the loop skipping extlangs: the index of the first part from i on that is
\* not a 3 letter extlang, Len(parts)+1 if there is none
RECURSIVE SkipExtlangsNoDigitTest(_, _)
SkipExtlangsNoDigitTest(parts, i) ==
    IF i > Len(parts) THEN i
    ELSE IF Len(parts[i]) = 3
    THEN SkipExtlangsNoDigitTest(parts, i+1)
    ELSE i

RECURSIVE SkipExtlangs(_, _)
SkipExtlangs(parts, i) ==
    IF i > Len(parts) THEN i
    ELSE IF Len(parts[i]) = 3 /\ ~isdigit(parts[i][1])
    THEN SkipExtlangs(parts, i+1)
    ELSE i

\* 2: the BCP47-like remainder, parts being the subtags of tagMain
FromTagParts(id0, tagIn, parts) ==
    IF Len(parts) = 0 THEN EmptyIdent
    ELSE
    LET id1 == [id0 EXCEPT !.m_language = Lower(parts[1]), !.m_tag = tagIn]
    IN IF Len(parts) = 1 THEN id1
       ELSE IF Len(id1.m_language) \notin {2, 3} THEN id1
       ELSE
       LET it == SkipExtlangs(parts, 2)
       IN IF it > Len(parts) THEN id1
          ELSE IF Len(parts[it]) \notin {2, 3, 4} THEN EmptyIdent
          ELSE
          LET id2 == IF Len(parts[it]) = 4
                     THEN [id1 EXCEPT !.m_script = Capitalize(parts[it])]
                     ELSE [id1 EXCEPT !.m_region = Upper(parts[it])]
              it2 == it + 1
          IN IF it2 > Len(parts) THEN CheckLanguageVariant(id2)
             ELSE
             LET takeRegion == id2.m_region = <<>> /\ Len(parts[it2]) \in {2, 3}
                 id3 == IF takeRegion
                        THEN [id2 EXCEPT !.m_region = Upper(parts[it2])]
                        ELSE id2
                 it3 == IF takeRegion THEN it2 + 1 ELSE it2
                 id4 == IF it3 <= Len(parts)
                        THEN [id3 EXCEPT !.m_extension = JoinFrom(parts, it3, "-")]
                        ELSE id3
             IN CheckLanguageVariant(id4)

FromTag(tagIn) ==
    IF IsDefaultCLocale(tagIn) THEN Language(EmptyIdent, tagIn)
    ELSE LET posix == FromTagPosix(tagIn)
             crt == FromTagWinCRT(posix[2])
             sorted == FromTagSortOrder(posix[1], crt)
             tagMain == Replace(sorted[2], "_", "-")
         IN FromTagParts(sorted[1], tagIn, wxSplit(tagMain, "-"))

\* ---- wxLocaleIdent::GetTag(wxLOCALE_TAGTYPE_BCP47) ----------------------
Dash(s) == IF s # <<>> THEN <<"-">> \o s ELSE <<>>

GetTagBCP47NoScript(id) ==
    id.m_language \o Dash(id.m_region) \o Dash(id.m_extension)

GetTagBCP47(id) ==
    id.m_language \o Dash(id.m_script) \o Dash(id.m_region) \o Dash(id.m_extension)

-----------------------------------------------------------------------------
(* Callers of FromTag: a tag assembled from subtags, or the BCP47 tag of   *)
(* an identifier built with the setters                                    *)

MaxSubtags == 3

TagSubtags == { <<"e","N">>, <<"D","E","u">>, <<"x">>, <<"c","Y","R","L">>,
                <<"g","b">>, <<"4","1","9">>, <<"T","h","a","i">>, valencia }
TagSeps == {"-", "_"}
TagSuffixes == { <<>>, <<".","U","T","F","8","@","l","a","t","i","n">>,
                 <<"_","s","t","r","o","k","e">> }

LanguageArgs == { <<"e","n">>, <<"D","E","U">>, <<"C">>, <<"x","1">> }
ScriptArgs == { <<"l","A","T","N">>, <<"L","a","t","i","n">>, <<"x","x">>, <<>> }
RegionArgs == { <<"u","s">>, <<"4","1","9">>, <<"a","b","c">>, <<"l","o","n","g">>, <<>> }
ExtensionArgs == { valencia, <<"u","-","c","o">>, <<"U","S">>, <<"1","9","9","6">>,
                   <<"f","o","n">>, <<"x","_">>, <<>> }

\* the subtags joined by the separators seps[1], seps[2], ...
RECURSIVE JoinSeps(_, _)
JoinSeps(parts, seps) ==
    IF Len(parts) = 0 THEN <<>>
    ELSE IF Len(parts) = 1 THEN parts[1]
    ELSE parts[1] \o <<seps[1]>> \o JoinSeps(Tail(parts), Tail(seps))

TagIdle ==
    /\ tagPc = "idle"
    /\ tagParts = <<>>
    /\ tag = <<>>
    /\ srcId = EmptyIdent
    /\ locId = EmptyIdent

TagInit ==
    \/ /\ tagPc = "start"
       /\ \E n \in 1..MaxSubtags :
            \E parts \in [1..n -> TagSubtags], seps \in [1..(n-1) -> TagSeps],
               suffix \in TagSuffixes :
                /\ tagParts = parts
                /\ tag = JoinSeps(parts, seps) \o suffix
       /\ srcId = EmptyIdent
       /\ locId = EmptyIdent
    \/ /\ tagPc = "build"
       /\ tagParts = <<>>
       /\ tag = <<>>
       /\ srcId = EmptyIdent
       /\ locId = EmptyIdent

CallLanguage ==
    /\ tagPc = "build"
    /\ \E l \in LanguageArgs : srcId' = Language(srcId, l)
    /\ UNCHANGED <<tagPc, tagParts, tag, locId>>

CallScript ==
    /\ tagPc = "build"
    /\ \E s \in ScriptArgs : srcId' = Script(srcId, s)
    /\ UNCHANGED <<tagPc, tagParts, tag, locId>>

CallRegion ==
    /\ tagPc = "build"
    /\ \E r \in RegionArgs : srcId' = Region(srcId, r)
    /\ UNCHANGED <<tagPc, tagParts, tag, locId>>

CallExtension ==
    /\ tagPc = "build"
    /\ \E e \in ExtensionArgs : srcId' = Extension(srcId, e)
    /\ UNCHANGED <<tagPc, tagParts, tag, locId>>

CallGetTag ==
    /\ tagPc = "build"
    /\ tag' = GetTagBCP47(srcId)
    /\ tagPc' = "tagged"
    /\ UNCHANGED <<tagParts, srcId, locId>>

CallFromTag ==
    /\ tagPc \in {"start", "tagged"}
    /\ locId' = FromTag(tag)
    /\ tagPc' = IF tagPc = "start" THEN "parsed" ELSE "reparsed"
    /\ UNCHANGED <<tagParts, tag, srcId>>

-----------------------------------------------------------------------------
(* Claims about wxLocaleIdent                                              *)

AllDigits(s) == \A i \in 1..Len(s) : isdigit(s[i])
IsLanguageSubtag(p) == Len(p) \in {2, 3}
IsScriptSubtag(p) == Len(p) = 4
IsRegionSubtag(p) == Len(p) = 2 \/ (Len(p) = 3 /\ AllDigits(p))

\* the tag is exactly its subtags joined by '-' or '_'
TagIsPlain == \E seps \in [1..(Len(tagParts)-1) -> TagSeps] :
                  tag = JoinSeps(tagParts, seps)

\* language[-script][-region]
TagIsLangScriptRegion ==
    /\ TagIsPlain
    /\ Len(tagParts) \in 1..3
    /\ IsLanguageSubtag(tagParts[1])
    /\ \/ Len(tagParts) = 1
       \/ Len(tagParts) = 2 /\ (IsScriptSubtag(tagParts[2]) \/ IsRegionSubtag(tagParts[2]))
       \/ Len(tagParts) = 3 /\ IsScriptSubtag(tagParts[2]) /\ IsRegionSubtag(tagParts[3])

ScriptSubtagOf(parts) ==
    IF Len(parts) >= 2 /\ IsScriptSubtag(parts[2]) THEN parts[2] ELSE <<>>
RegionSubtagOf(parts) ==
    IF Len(parts) = 2 /\ IsRegionSubtag(parts[2]) THEN parts[2]
    ELSE IF Len(parts) = 3 THEN parts[3] ELSE <<>>

\* C1 as stated: for a tag language[-script][-region] (separators '-' or
\* '_' in any combination) with a language subtag of 2 or 3 characters,
\* FromTag returns the language in lower case, the 4-character script
\* capitalized and the 2-character or 3-digit region in upper case.
C1_AnySeparators ==
    (tagPc = "parsed" /\ TagIsLangScriptRegion) =>
        /\ locId.m_language = Lower(tagParts[1])
        /\ locId.m_script = Capitalize(ScriptSubtagOf(tagParts))
        /\ locId.m_region = Upper(RegionSubtagOf(tagParts))

\* language_script-region: '_' before the script and '-' before the region
TagIsUnderscoreThenDash ==
    /\ Len(tagParts) = 3
    /\ tag = JoinSeps(tagParts, <<"_", "-">>)

\* C1 (amended): the same, for every combination of separators except '_'
\* before the script together with '-' before the region.
C1_FromTagFields ==
    (tagPc = "parsed" /\ TagIsLangScriptRegion /\ ~TagIsUnderscoreThenDash) =>
        /\ locId.m_language = Lower(tagParts[1])
        /\ locId.m_script = Capitalize(ScriptSubtagOf(tagParts))
        /\ locId.m_region = Upper(RegionSubtagOf(tagParts))

C1_Witness ==
    /\ tagPc = "parsed"
    /\ TagIsLangScriptRegion
    /\ tagParts = << <<"D","E","u">>, <<"c","Y","R","L">>, <<"4","1","9">> >>
    /\ tag = JoinSeps(tagParts, <<"-", "_">>)
    /\ locId.m_language = <<"d","e","u">>
    /\ locId.m_script = <<"C","y","r","l">>
    /\ locId.m_region = <<"4","1","9">>

SameFields(a, b) ==
    /\ a.m_language = b.m_language
    /\ a.m_script = b.m_script
    /\ a.m_region = b.m_region
    /\ a.m_extension = b.m_extension

\* C4 as stated: every identifier built from accepted setter calls survives
\* GetTag(wxLOCALE_TAGTYPE_BCP47) followed by FromTag.
C4_RoundTripAll ==
    (tagPc = "reparsed" /\ srcId.m_language # <<>>) => SameFields(locId, srcId)

\* the identifiers FromTag can read back from their BCP47 tag: the C locale
\* on its own, or an ISO 639 language with a region that is not mistaken for
\* an extlang and an extension that follows a region (or a script, when it
\* cannot be taken for a region)
RoundTripCovered(id) ==
    \/ /\ IsDefaultCLocale(id.m_language)
       /\ id.m_script = <<>> /\ id.m_region = <<>> /\ id.m_extension = <<>>
    \/ /\ Len(id.m_language) \in {2, 3}
       /\ \/ id.m_region = <<>>
          \/ id.m_script # <<>>
          \/ Len(id.m_region) = 2
          \/ isdigit(id.m_region[1])
       /\ \/ id.m_extension = <<>>
          \/ id.m_region # <<>>
          \/ /\ id.m_script # <<>>
             /\ Len(BeforeFirst(id.m_extension, "-")[1]) \notin {2, 3}

\* C4 (amended): the C/POSIX identifier without further fields, and every
\* identifier with an ISO 639 language, whose region is not a 3-letter code
\* without script and whose extension follows a region (or a script, its
\* first subtag not being 2 or 3 characters long), has
\* the same language, script, region and extension after
\* FromTag(GetTag(wxLOCALE_TAGTYPE_BCP47)).
C4_RoundTripCovered ==
    (tagPc = "reparsed" /\ RoundTripCovered(srcId)) => SameFields(locId, srcId)

C4_Witness ==
    /\ tagPc = "reparsed"
    /\ srcId.m_language = <<"d","e","u">>
    /\ srcId.m_script = <<"L","a","t","n">>
    /\ srcId.m_region = <<"4","1","9">>
    /\ srcId.m_extension = <<"u","-","c","o">>
    /\ SameFields(locId, srcId)

\* exactness of the amendment on the modelled inputs: outside of it the
\* round trip fails
C4_NotCoveredFails ==
    (tagPc = "reparsed" /\ srcId.m_language # <<>> /\ ~RoundTripCovered(srcId))
        => ~SameFields(locId, srcId)

-----------------------------------------------------------------------------
(* wxFileName: formats, separators, SplitVolume and SplitPath              *)

wxFILE_SEP_EXT == "."
wxFILE_SEP_DSK == ":"
wxFILE_SEP_PATH_DOS == "\\"
wxFILE_SEP_PATH_UNIX == "/"
wxFILE_SEP_PATH_MAC == ":"
wxFILE_SEP_PATH_VMS == "."
wxMSW_EXTENDED_PATH_PREFIX == <<"\\", "\\", "?", "\\">>

PathFormats == {"NATIVE", "DOS", "UNIX", "MAC", "VMS"}
\* the formats a build can have as its native one
NativeFormats == {"DOS", "VMS", "UNIX"}

GetFormat(format, native) == IF format = "NATIVE" THEN native ELSE format

\* the separators, the one used by GetFullPath() first
GetPathSeparators(format, native) ==
    LET f == GetFormat(format, native)
    IN IF f = "DOS" THEN <<wxFILE_SEP_PATH_DOS, wxFILE_SEP_PATH_UNIX>>
       ELSE IF f = "MAC" THEN <<wxFILE_SEP_PATH_MAC>>
       ELSE IF f = "VMS" THEN <<wxFILE_SEP_PATH_VMS>>
       ELSE <<wxFILE_SEP_PATH_UNIX>>

SeqSet(s) == {s[i] : i \in 1..Len(s)}

GetPathTerminators(format, native) ==
    IF GetFormat(format, native) = "VMS" THEN <<"]">>
    ELSE GetPathSeparators(format, native)

GetVolumeSeparator(format, native) ==
    IF GetFormat(format, native) \in {"DOS", "VMS"} THEN <<wxFILE_SEP_DSK>> ELSE <<>>

IsPathSeparator(ch, format, native) ==
    ch \in SeqSet(GetPathSeparators(format, native))

IsDOSPathSep(ch) == ch = wxFILE_SEP_PATH_DOS \/ ch = wxFILE_SEP_PATH_UNIX

IsUNCPath(path) ==
    /\ Len(path) >= 3
    /\ IsDOSPathSep(path[1])
    /\ IsDOSPathSep(path[2])
    /\ ~IsDOSPathSep(path[3])

StartsWith(s, prefix) ==
    Len(s) >= Len(prefix) /\ SubSeq(s, 1, Len(prefix)) = prefix

\* position of the first character of set cs at or after position from, 0 if none
FindFirstOfFrom(s, cs, from) ==
    IF \E i \in from..Len(s) : s[i] \in cs
    THEN CHOOSE i \in from..Len(s) :
             s[i] \in cs /\ \A j \in from..(i-1) : s[j] \notin cs
    ELSE 0

\* SplitVolume as the pair <<volume, path>>, format being resolved already
SplitVolume(fullpath, format) ==
    LET colonCase ==
            LET posFirstColon == FindFirstOf(fullpath, {wxFILE_SEP_DSK})
            IN IF posFirstColon > 1
               THEN <<Left(fullpath, posFirstColon - 1), Mid(fullpath, posFirstColon + 1)>>
               ELSE << <<>>, fullpath>>
    IN IF format = "DOS" /\ StartsWith(fullpath, wxMSW_EXTENDED_PATH_PREFIX)
       THEN LET posNextSep == FindFirstOfFrom(fullpath, {wxFILE_SEP_PATH_DOS},
                                              Len(wxMSW_EXTENDED_PATH_PREFIX) + 1)
            IN IF posNextSep # 0
               THEN <<Left(fullpath, posNextSep - 1), Mid(fullpath, posNextSep)>>
               ELSE <<fullpath, <<wxFILE_SEP_PATH_DOS>> >>
       ELSE IF format = "DOS" /\ IsUNCPath(fullpath)
       THEN LET posFirstSlash ==
                    FindFirstOfFrom(fullpath, SeqSet(GetPathTerminators(format, format)), 4)
                volume == IF posFirstSlash # 0 THEN Left(fullpath, posFirstSlash - 1)
                          ELSE fullpath
                pathOnly == IF posFirstSlash # 0 THEN Mid(fullpath, posFirstSlash)
                            ELSE <<>>
            IN <<[volume EXCEPT ![1] = "\\", ![2] = "\\"], pathOnly>>
       ELSE IF format \in {"DOS", "VMS"} THEN colonCase
       ELSE << <<>>, fullpath>>

\* SplitPath; the character before the last dot is tested by IsPathSeparator
\* called without a format, that is for the native format of the build
SplitPath(fullpathWithVolume, fmt, native) ==
    LET format == GetFormat(fmt, native)
        vol == SplitVolume(fullpathWithVolume, format)
        fullpath == vol[2]
        dot0 == FindLastOf(fullpath, {wxFILE_SEP_EXT})
        posLastSlash == FindLastOf(fullpath, SeqSet(GetPathTerminators(format, native)))
        dot1 == IF /\ dot0 # 0
                   /\ \/ dot0 = 1
                      \/ IsPathSeparator(fullpath[dot0 - 1], "NATIVE", native)
                      \/ (format = "VMS" /\ fullpath[dot0 - 1] = "]")
                THEN 0 ELSE dot0
        posLastDot == IF dot1 # 0 /\ posLastSlash # 0 /\ dot1 < posLastSlash
                      THEN 0 ELSE dot1
        path0 == IF posLastSlash = 0 THEN <<>>
                 ELSE Left(fullpath, IF posLastSlash = 1 /\ format # "MAC"
                                     THEN 1 ELSE posLastSlash - 1)
        path == IF format = "VMS" /\ path0 # <<>> /\ path0[1] = "["
                THEN Tail(path0) ELSE path0
        name == IF posLastDot = 0 THEN Mid(fullpath, posLastSlash + 1)
                ELSE SubSeq(fullpath, posLastSlash + 1, posLastDot - 1)
    IN [volume |-> vol[1], path |-> path, name |-> name,
        ext |-> IF posLastDot = 0 THEN <<>> ELSE Mid(fullpath, posLastDot + 1),
        hasExt |-> posLastDot # 0]

MaxPathLen == 4
PathChars == {"a", ".", "/", "\\", ":", "]", "?"}
NoOut == [volume |-> <<>>, path |-> <<>>, name |-> <<>>, ext |-> <<>>, hasExt |-> FALSE]

SpIdle ==
    /\ spPc = "idle"
    /\ spNative = "UNIX"
    /\ spFormat = "NATIVE"
    /\ spFullpath = <<>>
    /\ spOut = NoOut

SpInit ==
    /\ spPc = "start"
    /\ spNative \in NativeFormats
    /\ spFormat \in PathFormats
    /\ \E n \in 0..MaxPathLen : spFullpath \in [1..n -> PathChars]
    /\ spOut = NoOut

CallSplitPath ==
    /\ spPc = "start"
    /\ spOut' = SplitPath(spFullpath, spFormat, spNative)
    /\ spPc' = "done"
    /\ UNCHANGED <<spNative, spFormat, spFullpath>>

-----------------------------------------------------------------------------
(* Claims about wxFileName::SplitPath                                      *)

\* the path without its volume, and the places of its last dot and of its
\* last path separator (0 if none)
SpPathOnly == SplitVolume(spFullpath, GetFormat(spFormat, spNative))[2]
SpLastDot == FindLastOf(SpPathOnly, {wxFILE_SEP_EXT})
SpLastSep == FindLastOf(SpPathOnly, SeqSet(GetPathTerminators(spFormat, spNative)))

\* the last dot lies after the last separator and does not begin the last
\* path component
SpDotStartsExt ==
    /\ SpLastDot # 0
    /\ SpLastDot > SpLastSep + 1

\* C2: the last dot starts the extension only if it lies after the last path
\* separator and is not the first character of the last component; in every
\* other case the extension is empty, hasExt is false and the name is the
\* whole last component.
C2_ExtOnlyAfterNameStart ==
    (spPc = "done" /\ ~SpDotStartsExt) =>
        /\ spOut.hasExt = FALSE
        /\ spOut.ext = <<>>
        /\ spOut.name = Mid(SpPathOnly, SpLastSep + 1)

\* the same, when the path is split in the native format of the build
C2_NativeFormatOnly ==
    (spPc = "done" /\ ~SpDotStartsExt
        /\ GetFormat(spFormat, spNative) = spNative) =>
        /\ spOut.hasExt = FALSE
        /\ spOut.ext = <<>>
        /\ spOut.name = Mid(SpPathOnly, SpLastSep + 1)

-----------------------------------------------------------------------------
(* wxLocaleIdent: likely subtags and GetBestMatch                          *)

DISTANCE_INFINITY == 1000

en == <<"e","n">>
fr == <<"f","r">>
Zzzz == <<"Z","z","z","z">>
ZZ == <<"Z","Z">>

\* the likely subtags table of wxUILocaleImpl: tag -> language-script-region
LikelySubtags ==
    { <<en, <<"e","n","-","L","a","t","n","-","U","S">> >>,
      <<fr, <<"f","r","-","L","a","t","n","-","F","R">> >> }

GetLikelySubtags(fromTag) ==
    IF \E e \in LikelySubtags : e[1] = fromTag
    THEN (CHOOSE e \in LikelySubtags : e[1] = fromTag)[2]
    ELSE <<>>

\* the language matching data of wxUILocaleImpl: the wildcard entries, and
\* for tags without wildcards the distance found (-1 if there is none)
GetMatchDistance(desired, supported, found) ==
    IF desired = <<"*">> /\ supported = <<"*">> THEN 80
    ELSE IF desired = <<"*","-","*">> /\ supported = desired THEN 50
    ELSE IF desired = <<"*","-","*","-","*">> /\ supported = desired THEN 4
    ELSE IF desired = <<"e","n","-","*","-","*">> /\ supported = desired THEN 5
    ELSE found

\* wxLocaleIdent::IsEmpty
IsEmpty(id) == id.m_language = <<>>

AddLikelySubtags(localeIdent) ==
    LET language == localeIdent.m_language
        script == IF localeIdent.m_script = Zzzz THEN <<>> ELSE localeIdent.m_script
        region == IF localeIdent.m_region = ZZ THEN <<>> ELSE localeIdent.m_region
        byScript == IF script # <<>>
                    THEN GetLikelySubtags(language \o <<"-">> \o script) ELSE <<>>
        byRegion == IF byScript = <<>> /\ region # <<>>
                    THEN GetLikelySubtags(language \o <<"-">> \o region) ELSE byScript
        toTag == IF byRegion = <<>> THEN GetLikelySubtags(language) ELSE byRegion
        subtags == wxSplit(toTag, "-")
        cleared == [localeIdent EXCEPT !.m_tag = <<>>]
        withScript == IF script = <<>> THEN Script(cleared, subtags[2]) ELSE cleared
    IN IF language = <<>> THEN EmptyIdent
       ELSE IF IsDefaultCLocale(language) THEN localeIdent
       ELSE IF script # <<>> /\ region # <<>> THEN localeIdent
       ELSE IF toTag = <<>> THEN EmptyIdent
       ELSE IF region = <<>> THEN Region(withScript, subtags[3])
       ELSE withScript

\* RemoveLikelySubtags with its default argument wxSubtags_FavourRegion
RemoveLikelySubtags(localeIdent) ==
    LET locId0 == AddLikelySubtags(localeIdent)
        language == locId0.m_language
        script == locId0.m_script
        region == locId0.m_region
        Same(id) == LET added == AddLikelySubtags(id)
                    IN script = added.m_script /\ region = added.m_region
        trial1 == Region(Script(Language(localeIdent, language), <<>>), <<>>)
        trial2 == Region(trial1, region)
        trial3 == Script(trial2, script)
    IN IF IsEmpty(locId0) THEN locId0
       ELSE IF Same(trial1) THEN trial1
       ELSE IF Same(trial2) THEN trial2
       ELSE IF Same(trial3) THEN trial3
       ELSE AddLikelySubtags(trial3)

\* the default distances, computed once from the wildcard entries
defaultLanguageDistance == GetMatchDistance(<<"*">>, <<"*">>, -1)
defaultScriptDistance == GetMatchDistance(<<"*","-","*">>, <<"*","-","*">>, -1)
defaultRegionDistance ==
    GetMatchDistance(<<"*","-","*","-","*">>, <<"*","-","*","-","*">>, -1) + 1
defaultRegionGroupDistance ==
    GetMatchDistance(<<"*","-","*","-","*">>, <<"*","-","*","-","*">>, -1)
defaultDemotion ==
    GetMatchDistance(<<"e","n","-","*","-","*">>, <<"e","n","-","*","-","*">>, -1) + 1
threshold == defaultScriptDistance

GbTags == { en, <<"E","N">>, <<"e","n","-","G","B">>, fr }

\* the identifiers GetBestMatch derives from FromTag(tag): the identifier, its
\* maximized form and the number of subtags its minimized form keeps besides
\* the language (supportedLocalesIn, supportedLocalesMax,
\* supportedLocalesMinDistance)
LocalesOf(localeIn, localeMin) ==
    [localeIn |-> localeIn,
     localeMax |-> AddLikelySubtags(localeIn),
     minDistance |-> (IF localeMin.m_script # <<>> THEN 1 ELSE 0)
                     + (IF localeMin.m_region # <<>> THEN 1 ELSE 0)]

LocalesOfId(localeIn) == LocalesOf(localeIn, RemoveLikelySubtags(localeIn))

LocalesOfTag == [t \in GbTags |-> LocalesOfId(FromTag(t))]

\* the distance of differing scripts
ScriptDistance(d) == IF d >= 0 THEN d ELSE defaultScriptDistance

\* the distance of differing languages
LanguageDistance(d) == IF d >= 0 THEN d ELSE defaultLanguageDistance

\* one turn of the inner loop for a pair that is no direct match, from the
\* identifiers of the desired and of the supported tag: the pair
\* <<distance, supportedMinDistance>>; j counts from 1
PairDistanceOf(desiredLocaleIn, desiredLocaleMax, supportedLocaleIn, supportedLocaleMax, minDistance, j, found, sameRegion) ==
    LET start == (j - 1) * defaultDemotion + 1
        scriptDistance ==
            IF CmpNoCaseEq(supportedLocaleMax.m_script, desiredLocaleMax.m_script)
            THEN 0
            ELSE ScriptDistance(GetMatchDistance(
                     desiredLocaleMax.m_language \o <<"-">> \o desiredLocaleMax.m_script,
                     supportedLocaleMax.m_language \o <<"-">> \o supportedLocaleMax.m_script,
                     found))
        regionDiffers ==
            ~CmpNoCaseEq(supportedLocaleMax.m_region, desiredLocaleMax.m_region)
    IN IF desiredLocaleMax.m_language # <<>> /\ supportedLocaleMax.m_language # <<>>
       THEN IF CmpNoCaseEq(supportedLocaleMax.m_language, desiredLocaleMax.m_language)
            THEN << start + scriptDistance
                    + (IF ~regionDiffers THEN 0
                       ELSE IF sameRegion THEN defaultRegionGroupDistance
                       ELSE defaultRegionDistance),
                    minDistance
                    + (IF CmpNoCaseEq(desiredLocaleIn.m_script, supportedLocaleIn.m_script)
                       THEN 0 ELSE 1)
                    + (IF CmpNoCaseEq(desiredLocaleIn.m_region, supportedLocaleIn.m_region)
                       THEN 0 ELSE 1) >>
            ELSE << start
                    + LanguageDistance(GetMatchDistance(desiredLocaleMax.m_language,
                                                        supportedLocaleMax.m_language,
                                                        found))
                    + scriptDistance
                    + (IF regionDiffers THEN defaultRegionDistance ELSE 0),
                    minDistance >>
       ELSE << start + defaultLanguageDistance + defaultScriptDistance
               + defaultRegionDistance,
               minDistance >>

PairDistanceOfLocales(d, s, j, found, sameRegion) ==
    PairDistanceOf(d.localeIn, d.localeMax, s.localeIn, s.localeMax, s.minDistance,
                   j, found, sameRegion)

\* locales is the table of the identifiers of the tags
PairDistanceIn(locales, desiredTag, supportedTag, j, found, sameRegion) ==
    PairDistanceOfLocales(locales[desiredTag], locales[supportedTag],
                          j, found, sameRegion)

PairDistance(desiredTag, supportedTag, j, found, sameRegion) ==
    PairDistanceIn(LocalesOfTag, desiredTag, supportedTag, j, found, sameRegion)

GbStart == [bestDesired |-> 0, bestSupported |-> 0,
            bestDistance |-> DISTANCE_INFINITY,
            bestMinDistance |-> DISTANCE_INFINITY,
            directMatch |-> FALSE, j |-> 0, k |-> 0,
            bestBeforeMatch |-> DISTANCE_INFINITY]

\* a direct match that leaves the best match found so far alone
DirectMatchKeepsBest(st, j, k) ==
    [st EXCEPT !.directMatch = TRUE, !.j = j, !.k = k,
               !.bestBeforeMatch = st.bestDistance]

\* the direct match of desired[j] and supported[k]: the locals at the break;
\* bestBeforeMatch records bestDistance as it was on entry
DirectMatch(st, j, k) ==
    LET distance == (j - 1) * defaultDemotion
        found == [st EXCEPT !.directMatch = TRUE, !.j = j, !.k = k,
                            !.bestBeforeMatch = st.bestDistance]
    IN IF distance < st.bestDistance
       THEN [found EXCEPT !.bestDistance = distance,
                          !.bestDesired = j, !.bestSupported = k]
       ELSE found

\* the check whether a better match was found, pd being the pair
\* <<distance, supportedMinDistance>>
BetterMatch(st, pd, j, k) ==
    IF /\ pd[1] < threshold
       /\ \/ pd[1] < st.bestDistance
          \/ (pd[1] = st.bestDistance /\ pd[2] < st.bestMinDistance)
    THEN [st EXCEPT !.bestMinDistance = pd[2], !.bestDistance = pd[1],
                    !.bestDesired = j, !.bestSupported = k]
    ELSE st

\* the two loops from the pair (j, k) on; indexes count from 1
RECURSIVE GetBestMatchLoop(_, _, _, _, _, _, _, _)
GetBestMatchLoop(locales, desired, supported, found, sameRegion, st, j, k) ==
    IF j > Len(desired) THEN [st EXCEPT !.j = j, !.k = k]
    ELSE IF k > Len(supported)
    THEN GetBestMatchLoop(locales, desired, supported, found, sameRegion, st, j + 1, 1)
    ELSE IF CmpNoCaseEq(desired[j], supported[k])
    THEN DirectMatch(st, j, k)
    ELSE GetBestMatchLoop(locales, desired, supported, found, sameRegion,
             BetterMatch(st,
                 PairDistanceIn(locales, desired[j], supported[k], j, found, sameRegion),
                 j, k),
             j, k + 1)

\* the value returned for the locals st at the end of the loops
GetBestMatchResult(st, supported) ==
    [locals |-> st,
     result |-> IF st.bestSupported >= 1 THEN supported[st.bestSupported] ELSE <<>>]

\* GetBestMatch: its locals at the return together with the returned tag
GetBestMatch(desired, supported, found, sameRegion) ==
    GetBestMatchResult(
        GetBestMatchLoop(LocalesOfTag, desired, supported, found, sameRegion,
                         GbStart, 1, 1),
        supported)

MaxTags == 2
GbFound == {-1, 0, 10}
GbNoOut == [locals |-> GbStart, result |-> <<>>]

GbIdle ==
    /\ gbPc = "idle"
    /\ gbDesired = <<>>
    /\ gbSupported = <<>>
    /\ gbFound = -1
    /\ gbSameRegion = FALSE
    /\ gbOut = GbNoOut

GbInit ==
    /\ gbPc = "start"
    /\ \E n \in 1..MaxTags : gbDesired \in [1..n -> GbTags]
    /\ \E n \in 0..MaxTags : gbSupported \in [1..n -> GbTags]
    /\ gbFound \in GbFound
    /\ gbSameRegion \in BOOLEAN
    /\ gbOut = GbNoOut

\* GetBestMatch(const wxVector<wxString>&, const wxVector<wxString>&)
CallGetBestMatch ==
    /\ gbPc = "start"
    /\ gbOut' = GetBestMatch(gbDesired, gbSupported, gbFound, gbSameRegion)
    /\ gbPc' = "done"
    /\ UNCHANGED <<gbDesired, gbSupported, gbFound, gbSameRegion>>

\* GetBestMatch(const wxString&, const wxVector<wxString>&) with the first tag
CallGetBestMatchSingle ==
    /\ gbPc = "start"
    /\ gbOut' = GetBestMatch(<<gbDesired[1]>>, gbSupported, gbFound, gbSameRegion)
    /\ gbDesired' = <<gbDesired[1]>>
    /\ gbPc' = "done"
    /\ UNCHANGED <<gbSupported, gbFound, gbSameRegion>>

-----------------------------------------------------------------------------
(* Claims about wxLocaleIdent::GetBestMatch                                *)

GbDirect == gbPc = "done" /\ gbOut.locals.directMatch

NoCloserEarlierMatch(j) ==
    \A i \in 1..(j - 1) : \A k \in 1..Len(gbSupported) :
        LET d == PairDistance(gbDesired[i], gbSupported[k], i, gbFound, gbSameRegion)[1]
        IN d >= threshold \/ d > (j - 1) * defaultDemotion

C3_CloserEarlierMatchWins ==
    (GbDirect /\ ~NoCloserEarlierMatch(gbOut.locals.j)) =>
        /\ gbOut.locals.bestDesired < gbOut.locals.j
        /\ gbOut.locals.bestDistance <= (gbOut.locals.j - 1) * defaultDemotion
        /\ gbOut.result = gbSupported[gbOut.locals.bestSupported]

-----------------------------------------------------------------------------
(* wxButton (MSW): permanent and temporary default button                  *)

Buttons == {"ok", "cancel"}
NoWindow == "null"
\* "dlg" is the top level window the buttons are in, "frm" its parent if any
TopLevelWindows == {"dlg", "frm"}
\* the button styles: BS_PUSHBUTTON, BS_DEFPUSHBUTTON, BS_OWNERDRAW
ButtonStyles == {"BS_PUSHBUTTON", "BS_DEFPUSHBUTTON", "BS_OWNERDRAW"}
NoId == "-1"

\* wxTopLevelWindow::GetDefaultItem
GetDefaultItem(winDefault, winTmpDefault, tlw) ==
    IF winTmpDefault[tlw] # NoWindow THEN winTmpDefault[tlw] ELSE winDefault[tlw]

\* wxTopLevelWindow::SetTmpDefaultItem
SetTmpDefaultItem(winTmpDefault, tlw, win) == [winTmpDefault EXCEPT ![tlw] = win]

\* wxTopLevelWindow::SetDefaultItem
SetDefaultItem(winDefault, tlw, win) == [winDefault EXCEPT ![tlw] = win]

\* wxWindow::IsTopLevel of the window the buttons are in: false for a top
\* level window being deleted
IsTopLevel(tlwState) == ~tlwState.beingDeleted

\* wxGetTopLevelParent of a button
wxGetTopLevelParent(tlwState) ==
    IF IsTopLevel(tlwState) THEN "dlg"
    ELSE IF tlwState.hasParent THEN "frm"
    ELSE NoWindow

\* a top level window that is never found
GetTLWParentNever(tlwState) == NoWindow

\* the loop goes up from the button to "dlg"; it stops there unless "dlg" has
\* a parent and is not top level any more, and then stops at "frm", which has
\* no parent and is not being deleted
GetTLWParentIfNotBeingDeleted(tlwState) ==
    IF ~tlwState.hasParent \/ IsTopLevel(tlwState)
    THEN IF tlwState.beingDeleted THEN NoWindow
         ELSE IF tlwState.kind = "wxTopLevelWindow" THEN "dlg"
         ELSE NoWindow
    ELSE "frm"

\* SetDefaultStyle on the pair ui = [defId, style]
SetDefaultStyle(ui, btn, on, tlwState, appActive) ==
    IF btn = NoWindow THEN ui
    ELSE IF on /\ ~appActive THEN ui
    ELSE IF wxGetTopLevelParent(tlwState) = NoWindow THEN ui
    ELSE LET tlw == wxGetTopLevelParent(tlwState)
             defId == [ui.defId EXCEPT ![tlw] = IF on THEN btn ELSE NoId]
             hasDefBit == ui.style[btn] \in {"BS_DEFPUSHBUTTON", "BS_OWNERDRAW"}
         IN IF (~hasDefBit) = on /\ ui.style[btn] # "BS_OWNERDRAW"
            THEN [defId |-> defId,
                  style |-> [ui.style EXCEPT ![btn] =
                                IF on THEN "BS_DEFPUSHBUTTON" ELSE "BS_PUSHBUTTON"]]
            ELSE [defId |-> defId, style |-> ui.style]

BtnIdle ==
    /\ btnTlw = [kind |-> "wxTopLevelWindow", beingDeleted |-> FALSE, hasParent |-> FALSE]
    /\ btnDefault = [w \in TopLevelWindows |-> NoWindow]
    /\ btnTmpDefault = [w \in TopLevelWindows |-> NoWindow]
    /\ btnDefId = [w \in TopLevelWindows |-> NoId]
    /\ btnStyle = [b \in Buttons |-> "BS_PUSHBUTTON"]
    /\ btnAppActive = FALSE
    /\ btnFocused = NoWindow
    /\ btnLast = [msg |-> "idle", btn |-> NoWindow, hadFocus |-> FALSE]

BtnInit ==
    /\ btnTlw \in [kind : {"wxTopLevelWindow", "wxPopupWindow"},
                   beingDeleted : {FALSE}, hasParent : BOOLEAN]
    /\ btnDefault = [w \in TopLevelWindows |-> NoWindow]
    /\ btnTmpDefault = [w \in TopLevelWindows |-> NoWindow]
    /\ btnDefId = [w \in TopLevelWindows |-> NoId]
    /\ btnStyle \in [Buttons -> {"BS_PUSHBUTTON", "BS_OWNERDRAW"}]
    /\ btnAppActive \in BOOLEAN
    /\ btnFocused = NoWindow
    /\ btnLast = [msg |-> "created", btn |-> NoWindow, hadFocus |-> FALSE]

\* MSWWindowProc(WM_SETFOCUS): SetTmpDefault
WmSetFocus(b) ==
    LET tlw == GetTLWParentIfNotBeingDeleted(btnTlw)
        winOldDefault == GetDefaultItem(btnDefault, btnTmpDefault, tlw)
        ui0 == [defId |-> btnDefId, style |-> btnStyle]
        ui1 == SetDefaultStyle(ui0, b, TRUE, btnTlw, btnAppActive)
        ui2 == IF winOldDefault # b
               THEN SetDefaultStyle(ui1, winOldDefault, FALSE, btnTlw, btnAppActive)
               ELSE ui1
    IN /\ btnLast.msg # "idle"
       /\ IF tlw = NoWindow
          THEN UNCHANGED <<btnTmpDefault, btnDefId, btnStyle>>
          ELSE /\ btnTmpDefault' = SetTmpDefaultItem(btnTmpDefault, tlw, b)
               /\ btnDefId' = ui2.defId
               /\ btnStyle' = ui2.style
       /\ btnFocused' = b
       /\ btnLast' = [msg |-> "WM_SETFOCUS", btn |-> b, hadFocus |-> FALSE]
       /\ UNCHANGED <<btnTlw, btnDefault, btnAppActive>>

\* MSWWindowProc(WM_KILLFOCUS): UnsetTmpDefault
WmKillFocus(b) ==
    LET tlw == GetTLWParentIfNotBeingDeleted(btnTlw)
        winTmpDefault == SetTmpDefaultItem(btnTmpDefault, tlw, NoWindow)
        winOldDefault == GetDefaultItem(btnDefault, winTmpDefault, tlw)
        ui0 == [defId |-> btnDefId, style |-> btnStyle]
        ui1 == SetDefaultStyle(ui0, winOldDefault, TRUE, btnTlw, btnAppActive)
        ui2 == IF winOldDefault # b
               THEN SetDefaultStyle(ui1, b, FALSE, btnTlw, btnAppActive)
               ELSE ui1
    IN /\ btnLast.msg # "idle"
       /\ IF tlw = NoWindow
          THEN UNCHANGED <<btnTmpDefault, btnDefId, btnStyle>>
          ELSE /\ btnTmpDefault' = winTmpDefault
               /\ btnDefId' = ui2.defId
               /\ btnStyle' = ui2.style
       /\ btnFocused' = IF btnFocused = b THEN NoWindow ELSE btnFocused
       /\ btnLast' = [msg |-> "WM_KILLFOCUS", btn |-> b, hadFocus |-> btnFocused = b]
       /\ UNCHANGED <<btnTlw, btnDefault, btnAppActive>>

\* wxButton::SetDefault: wxButtonBase::SetDefault sets the default item of the
\* top level parent and returns the old one
CallSetDefault(b) ==
    LET tlw == wxGetTopLevelParent(btnTlw)
        winOldDefault == GetDefaultItem(btnDefault, btnTmpDefault, tlw)
        ui0 == [defId |-> btnDefId, style |-> btnStyle]
        ui1 == SetDefaultStyle(ui0, winOldDefault, FALSE, btnTlw, btnAppActive)
        ui2 == SetDefaultStyle(ui1, b, TRUE, btnTlw, btnAppActive)
    IN /\ btnLast.msg # "idle"
       /\ tlw # NoWindow
       /\ btnTlw.kind = "wxTopLevelWindow"
       /\ btnDefault' = SetDefaultItem(btnDefault, tlw, b)
       /\ btnDefId' = ui2.defId
       /\ btnStyle' = ui2.style
       /\ btnLast' = [msg |-> "SetDefault", btn |-> b, hadFocus |-> FALSE]
       /\ UNCHANGED <<btnTlw, btnTmpDefault, btnAppActive, btnFocused>>

\* the application gains or loses activation
AppActivate ==
    /\ btnLast.msg # "idle"
    /\ btnAppActive' = ~btnAppActive
    /\ btnLast' = [msg |-> "activate", btn |-> NoWindow, hadFocus |-> FALSE]
    /\ UNCHANGED <<btnTlw, btnDefault, btnTmpDefault, btnDefId, btnStyle, btnFocused>>

\* the deletion of the top level window of the buttons begins
BeginDelete ==
    /\ btnLast.msg # "idle"
    /\ ~btnTlw.beingDeleted
    /\ btnTlw' = [btnTlw EXCEPT !.beingDeleted = TRUE]
    /\ btnLast' = [msg |-> "delete", btn |-> NoWindow, hadFocus |-> FALSE]
    /\ UNCHANGED <<btnDefault, btnTmpDefault, btnDefId, btnStyle, btnAppActive, btnFocused>>

BtnSetFocus == \E b \in Buttons : WmSetFocus(b)
BtnKillFocus == \E b \in Buttons : WmKillFocus(b)
BtnSetDefault == \E b \in Buttons : CallSetDefault(b)

-----------------------------------------------------------------------------
(* Claims about wxButton                                                   *)

\* the top level window of the buttons is a wxTopLevelWindow not being deleted
TlwNotBeingDeleted ==
    btnTlw.kind = "wxTopLevelWindow" /\ ~btnTlw.beingDeleted

\* C5: when a button whose top level window is not being deleted receives
\* WM_SETFOCUS it becomes the temporary default item of that window, and when
\* it then receives WM_KILLFOCUS the temporary default item is cleared and the
\* default item of the window is the permanent default button again, or none.
C5_TmpDefaultFollowsFocus ==
    /\ (btnLast.msg = "WM_SETFOCUS" /\ TlwNotBeingDeleted) =>
           /\ btnTmpDefault["dlg"] = btnLast.btn
           /\ GetDefaultItem(btnDefault, btnTmpDefault, "dlg") = btnLast.btn
    /\ (btnLast.msg = "WM_KILLFOCUS" /\ btnLast.hadFocus /\ TlwNotBeingDeleted) =>
           /\ btnTmpDefault["dlg"] = NoWindow
           /\ GetDefaultItem(btnDefault, btnTmpDefault, "dlg") = btnDefault["dlg"]

\* a button lost the focus it had while the other button is the permanent
\* default, which is the default item again
C5_Witness ==
    /\ btnLast.msg = "WM_KILLFOCUS"
    /\ btnLast.hadFocus
    /\ TlwNotBeingDeleted
    /\ btnDefault["dlg"] \in Buttons \ {btnLast.btn}
    /\ GetDefaultItem(btnDefault, btnTmpDefault, "dlg") = btnDefault["dlg"]

-----------------------------------------------------------------------------
(* wxFSVolumeBase (MSW): GetVolumes in one thread, CancelSearch in another *)

MaxDepth == 2
MaxCount == 2

\* what WNetEnumResource gives: a share, a share mapped to a local drive that
\* does not exist, a container, ERROR_MORE_DATA, NO_ERROR with count 0, or an
\* error that ends the enumeration
ResourceKinds == {"share", "unavailable", "container", "ERROR_MORE_DATA", "count0", "end"}

NoRes == [kind |-> "none", afterCancel |-> FALSE]

\* where the thread is while BuildRemoteList enumerates
Enumerating == {"open", "fetch", "check", "process", "close", "ret"}

\* a read that never sees the flag
CancelReadNever(flag, race) == {FALSE}

\* the values the plain read of s_cancelSearch in the loop can give: the read
\* is not atomic, so when it races with the write of CancelSearch it gives the
\* value before or after the write
CancelRead(flag, race) ==
    IF race[1] THEN {flag, race[2]} ELSE {flag}

NoRace == <<FALSE, FALSE>>

VolIdle ==
    /\ s_cancelSearch = FALSE
    /\ volPc = "off"
    /\ volMountedOnly = FALSE
    /\ volPass = 1
    /\ volStack = <<>>
    /\ volRes = NoRes
    /\ volCount = 0
    /\ volRace = NoRace
    /\ volCancelled = FALSE
    /\ volLate = FALSE
    /\ volDiscarded = FALSE

VolInit ==
    /\ s_cancelSearch = FALSE
    /\ volPc = "idle"
    /\ volMountedOnly = FALSE
    /\ volPass = 1
    /\ volStack = <<>>
    /\ volRes = NoRes
    /\ volCount = 0
    /\ volRace = NoRace
    /\ volCancelled = FALSE
    /\ volLate = FALSE
    /\ volDiscarded = FALSE

\* GetVolumes up to the call of BuildListFromNN: the flag is reset, the local
\* drives are listed, and the network is enumerated unless the flags exclude it
GvCall ==
    /\ volPc \in {"idle", "returned"}
    /\ s_cancelSearch' = FALSE
    /\ \E mounted \in BOOLEAN, network \in BOOLEAN :
          /\ volMountedOnly' = mounted
          /\ volPc' = IF network THEN "open" ELSE "returned"
    /\ volPass' = 1
    /\ volStack' = <<>>
    /\ volRes' = NoRes
    /\ volCount' = 0
    /\ volRace' = NoRace
    /\ volCancelled' = FALSE
    /\ volLate' = FALSE
    /\ volDiscarded' = FALSE

\* BuildListFromNN: WNetOpenEnum succeeds or fails
GvOpen ==
    /\ volPc = "open"
    /\ \/ /\ volStack' = Append(volStack, 0)
          /\ volPc' = "fetch"
       \/ /\ volStack' = volStack
          /\ volPc' = "ret"
    /\ volRace' = NoRace
    /\ UNCHANGED <<s_cancelSearch, volMountedOnly, volPass, volRes, volCount,
                   volCancelled, volLate, volDiscarded>>

\* the loop condition: WNetEnumResource is called
GvFetch ==
    /\ volPc = "fetch"
    /\ \E kind \in ResourceKinds :
          /\ kind = "container" => Len(volStack) < MaxDepth
          /\ kind = "share" => volCount < MaxCount
          /\ volRes' = [kind |-> kind, afterCancel |-> volCancelled]
          /\ volPc' = IF kind = "end" THEN "close" ELSE "check"
    /\ volStack' = [volStack EXCEPT ![Len(volStack)] =
                       IF volCancelled /\ @ < 2 THEN @ + 1 ELSE @]
    /\ volRace' = NoRace
    /\ UNCHANGED <<s_cancelSearch, volMountedOnly, volPass, volCount,
                   volCancelled, volLate, volDiscarded>>

\* if (s_cancelSearch) break;
GvCheck ==
    /\ volPc = "check"
    /\ \E cancel \in CancelRead(s_cancelSearch, volRace) :
          /\ volPc' = IF cancel THEN "close" ELSE "process"
          /\ volDiscarded' = (volDiscarded \/ (cancel /\ volRes.afterCancel))
    /\ volRace' = NoRace
    /\ UNCHANGED <<s_cancelSearch, volMountedOnly, volPass, volStack, volRes,
                   volCount, volCancelled, volLate>>

\* the body of the loop after the check
GvProcess ==
    /\ volPc = "process"
    /\ volPc' = IF volRes.kind = "container" THEN "open"
                ELSE IF volRes.kind = "count0" THEN "close"
                ELSE "fetch"
    /\ volCount' = IF volRes.kind = "share" THEN volCount + 1 ELSE volCount
    /\ volLate' = (volLate \/ volRes.afterCancel)
    /\ volRace' = NoRace
    /\ UNCHANGED <<s_cancelSearch, volMountedOnly, volPass, volStack, volRes,
                   volCancelled, volDiscarded>>

\* after the loop: free(pRes), WNetCloseEnum
GvClose ==
    /\ volPc = "close"
    /\ volStack' = SubSeq(volStack, 1, Len(volStack) - 1)
    /\ volPc' = "ret"
    /\ volRace' = NoRace
    /\ UNCHANGED <<s_cancelSearch, volMountedOnly, volPass, volRes, volCount,
                   volCancelled, volLate, volDiscarded>>

\* BuildListFromNN returns: to the loop of the caller, to BuildRemoteList for
\* the second pass, or through BuildRemoteList to GetVolumes, which returns
GvReturn ==
    /\ volPc = "ret"
    /\ IF volStack # <<>>
       THEN volPc' = "fetch" /\ volPass' = volPass
       ELSE IF volPass = 1 /\ ~volMountedOnly
       THEN volPc' = "open" /\ volPass' = 2
       ELSE volPc' = "returned" /\ volPass' = volPass
    /\ volRace' = NoRace
    /\ UNCHANGED <<s_cancelSearch, volMountedOnly, volStack, volRes, volCount,
                   volCancelled, volLate, volDiscarded>>

\* CancelSearch, called by another thread
CancelSearch ==
    /\ volPc # "off"
    /\ s_cancelSearch' = TRUE
    /\ volRace' = <<TRUE, s_cancelSearch>>
    /\ volCancelled' = (volCancelled \/ volPc \in Enumerating)
    /\ UNCHANGED <<volPc, volMountedOnly, volPass, volStack, volRes, volCount,
                   volLate, volDiscarded>>

\* the steps of the thread inside GetVolumes
GvRun == GvOpen \/ GvFetch \/ GvCheck \/ GvProcess \/ GvClose \/ GvReturn

-----------------------------------------------------------------------------
(* Claims about wxFSVolumeBase::CancelSearch                               *)

\* no resource fetched after the cancel is added or entered, and no loop
\* fetches more than one resource after the cancel
CancelStopsLoops ==
    /\ ~volLate
    /\ \A i \in 1..Len(volStack) : volStack[i] <= 1

\* C6: once CancelSearch has been called by another thread while GetVolumes
\* enumerates network resources, every enumeration loop stops at its next
\* iteration (the resource fetched by the loop condition is discarded, none is
\* added or entered any more) and GetVolumes returns.
C6_CancelStopsSearch ==
    /\ [](volCancelled => CancelStopsLoops)
    /\ [](volCancelled => <>(volPc = "returned"))

\* a search cancelled during its first pass has returned, a resource fetched
\* after the cancel having been discarded
C6_Witness ==
    /\ volCancelled
    /\ volPc = "returned"
    /\ volDiscarded
    /\ volPass = 2
    /\ volCount > 0

-----------------------------------------------------------------------------
(* wxUILocale: the current locale and whether it was set                   *)

NoImpl == [impl |-> "null", id |-> EmptyIdent]

\* wxUILocaleImpl::CreateStdC
CreateStdC == [impl |-> "StdC", id |-> EmptyIdent]

\* wxUILocaleImpl::CreateUserDefault
CreateUserDefault(available) ==
    IF available THEN [impl |-> "UserDefault", id |-> EmptyIdent] ELSE NoImpl

\* wxUILocaleImpl::CreateForLocale: null unless the system has the locale
CreateForLocale(localeId, supported) ==
    IF localeId.m_language \in supported
    THEN [impl |-> "Locale", id |-> localeId]
    ELSE NoImpl

\* wxUILocale::FindLanguageInfo(const wxLocaleIdent&)
FindLanguageInfoOfId(id) ==
    LET c == IsDefaultCLocale(id.m_language)
        lang == IF c THEN en ELSE id.m_language
        localeTag == IF c THEN <<"e","n","-","U","S">> ELSE GetTagBCP47(id)
        exact == {i \in 1..Len(LanguagesDB) :
                     CmpNoCaseEq(localeTag, LanguagesDB[i].LocaleTag)}
        byLang == {i \in 1..Len(LanguagesDB) :
                     CmpNoCaseEq(lang, BeforeFirst(LanguagesDB[i].LocaleTag, "-")[1])}
        First(S) == CHOOSE i \in S : \A j \in S : i <= j
    IN IF IsEmpty(id) THEN NoInfo
       ELSE IF exact # {} THEN LanguagesDB[First(exact)]
       ELSE IF byLang # {} THEN LanguagesDB[First(byLang)]
       ELSE NoInfo

\* the identifier CreateForLanguage builds from "lang[_region[@mod]]"
IdOfCanonicalName(name) ==
    LET langRest == BeforeFirst(name, "_")
        regionMod == BeforeFirst(langRest[2], "@")
        withLang == Language(EmptyIdent, langRest[1])
    IN IF langRest[2] = <<>> THEN withLang
       ELSE IF regionMod[2] = <<>> THEN Region(withLang, regionMod[1])
       ELSE Modifier(Region(withLang, regionMod[1]), regionMod[2])

\* wxUILocaleImpl::CreateForLanguage (not Windows)
CreateForLanguage(info, supported) ==
    LET impl == CreateForLocale(IdOfCanonicalName(info.CanonicalName), supported)
    IN IF impl = NoImpl /\ info.Language \in {"wxLANGUAGE_ENGLISH", "wxLANGUAGE_ENGLISH_US"}
       THEN CreateStdC
       ELSE impl

\* the locale UseLocaleName creates for the identifier of the name
ImplOfLocaleId(localeId, supported) ==
    IF CreateForLocale(localeId, supported) # NoImpl
    THEN CreateForLocale(localeId, supported)
    ELSE IF FindLanguageInfoOfId(localeId) # NoInfo
    THEN CreateForLanguage(FindLanguageInfoOfId(localeId), supported)
    ELSE NoImpl

\* the locale UseLocaleName creates, NoImpl if it fails
ImplOfLocaleName(localeName, supported) ==
    IF IsDefaultCLocale(localeName) THEN CreateStdC
    ELSE ImplOfLocaleId(FromTag(localeName), supported)

\* UseDefault and UseLocaleName after the locale was created: the new
\* <<ms_current, wxUILocaleIsSet, returned value>>
UseImpl(impl, current, isSet) ==
    IF impl = NoImpl THEN <<current, isSet, FALSE>>
    ELSE <<impl, TRUE, TRUE>>

\* a GetCurrent that counts the locale it installs as set
GetCurrentSets(current, isSet) ==
    IF current.impl = "null" THEN <<CreateStdC, TRUE>> ELSE <<current, isSet>>

\* GetCurrent: the new <<ms_current, wxUILocaleIsSet>>
GetCurrent(current, isSet) ==
    IF current.impl = "null" THEN <<CreateStdC, isSet>> ELSE <<current, isSet>>

UiLanguages == {en, <<"t","h">>}
UiLocaleNames == { <<"C">>, en, <<"t","h","_","T","H">>, <<"x","x">>, <<"T","h","a","i">> }

UiIdle ==
    /\ ms_current = NoImpl
    /\ wxUILocaleIsSet = FALSE
    /\ uiSupported = {}
    /\ uiUserDefault = FALSE
    /\ uiUsed = FALSE
    /\ uiLast = [call |-> "idle", ret |-> FALSE]

UiInit ==
    /\ ms_current = NoImpl
    /\ wxUILocaleIsSet = FALSE
    /\ uiSupported \in SUBSET UiLanguages
    /\ uiUserDefault \in BOOLEAN
    /\ uiUsed = FALSE
    /\ uiLast = [call |-> "start", ret |-> FALSE]

CallUseDefault ==
    LET r == UseImpl(CreateUserDefault(uiUserDefault), ms_current, wxUILocaleIsSet)
    IN /\ uiLast.call # "idle"
       /\ ms_current' = r[1]
       /\ wxUILocaleIsSet' = r[2]
       /\ uiUsed' = (uiUsed \/ r[3])
       /\ uiLast' = [call |-> "UseDefault", ret |-> r[3]]
       /\ UNCHANGED <<uiSupported, uiUserDefault>>

CallUseLocaleName ==
    \E localeName \in UiLocaleNames :
        LET r == UseImpl(ImplOfLocaleName(localeName, uiSupported),
                         ms_current, wxUILocaleIsSet)
        IN /\ uiLast.call # "idle"
           /\ ms_current' = r[1]
           /\ wxUILocaleIsSet' = r[2]
           /\ uiUsed' = (uiUsed \/ r[3])
           /\ uiLast' = [call |-> "UseLocaleName", ret |-> r[3]]
           /\ UNCHANGED <<uiSupported, uiUserDefault>>

CallIsSet ==
    /\ uiLast.call # "idle"
    /\ uiLast' = [call |-> "IsSet", ret |-> wxUILocaleIsSet]
    /\ UNCHANGED <<ms_current, wxUILocaleIsSet, uiSupported, uiUserDefault, uiUsed>>

CallGetCurrent ==
    LET r == GetCurrent(ms_current, wxUILocaleIsSet)
    IN /\ uiLast.call # "idle"
       /\ ms_current' = r[1]
       /\ wxUILocaleIsSet' = r[2]
       /\ uiLast' = [call |-> "GetCurrent", ret |-> FALSE]
       /\ UNCHANGED <<uiSupported, uiUserDefault, uiUsed>>

-----------------------------------------------------------------------------
(* Claims about wxUILocale                                                 *)

\* C7: IsSet() returns true if and only if an earlier call of UseDefault() or
\* UseLocaleName() returned true; GetCurrent(), which installs the standard C
\* locale on demand, never makes it true.
C7_IsSetIffUsed ==
    /\ wxUILocaleIsSet = uiUsed
    /\ uiLast.call = "IsSet" => uiLast.ret = uiUsed
    /\ uiLast.call = "GetCurrent" => ms_current # NoImpl

\* IsSet() returns false although GetCurrent() has installed the standard C
\* locale
C7_Witness ==
    /\ uiLast.call = "IsSet"
    /\ uiLast.ret = FALSE
    /\ ms_current = CreateStdC

\* IsSet() returns true after a call that returned true
C7_WitnessSet ==
    /\ uiLast.call = "IsSet"
    /\ uiLast.ret = TRUE
    /\ ms_current.impl = "Locale"

-----------------------------------------------------------------------------
(* wxFileName::GetTempDir                                                  *)

TempVars == {"TMPDIR", "TMP", "TEMP"}

\* CheckIfDirExists, dirExists being what wxFileName::DirExists(dir) gives
CheckIfDirExists(dir, dirExists) == IF dirExists /\ dir # <<>> THEN dir ELSE <<>>

\* the directory taken from the environment or, on Windows, from GetTempPath
TempDirFound(native, env, exists, system) ==
    IF CheckIfDirExists(env["TMPDIR"], exists["TMPDIR"]) # <<>>
    THEN env["TMPDIR"]
    ELSE IF CheckIfDirExists(env["TMP"], exists["TMP"]) # <<>>
    THEN env["TMP"]
    ELSE IF CheckIfDirExists(env["TEMP"], exists["TEMP"]) # <<>>
    THEN env["TEMP"]
    ELSE IF native = "DOS" THEN system
    ELSE <<>>

\* a directory left as it is
KeepTrailingSeparators(dir, native) == dir

\* the removal of the trailing path separators of a directory that is not empty
RemoveTrailingSeparators(dir, native) ==
    LET lastNonSep == FindLastNotOf(dir, SeqSet(GetPathSeparators("NATIVE", native)))
    IN IF lastNonSep = 0
       THEN <<GetPathSeparators("NATIVE", native)[1]>>
       ELSE Left(dir, lastNonSep)

\* the hard coded value
TempDirFallback(native, tmpExists) ==
    IF native = "UNIX" /\ CheckIfDirExists(<<"/","t","m","p">>, tmpExists) # <<>>
    THEN <<"/","t","m","p">>
    ELSE <<".">>

GetTempDir(native, env, exists, system, tmpExists) ==
    IF TempDirFound(native, env, exists, system) # <<>>
    THEN RemoveTrailingSeparators(TempDirFound(native, env, exists, system), native)
    ELSE TempDirFallback(native, tmpExists)

MaxDirLen == 2
DirChars == {"/", "\\", "t"}
\* all directory names up to MaxDirLen characters
DirNames == UNION {[1..n -> DirChars] : n \in 0..MaxDirLen}
\* the values of TMP and TEMP
OtherDirNames == { <<>>, <<"/">>, <<"t","/">> }

TdIdle ==
    /\ tdPc = "idle"
    /\ tdNative = "UNIX"
    /\ tdEnv = [v \in TempVars |-> <<>>]
    /\ tdExists = [v \in TempVars |-> FALSE]
    /\ tdSystem = <<>>
    /\ tdTmpExists = FALSE
    /\ tdOut = <<>>

TdInit ==
    /\ tdPc = "start"
    /\ tdNative \in {"DOS", "UNIX"}
    /\ \E d \in DirNames, tmp \in OtherDirNames, temp \in OtherDirNames :
          tdEnv = [v \in TempVars |-> IF v = "TMPDIR" THEN d
                                      ELSE IF v = "TMP" THEN tmp ELSE temp]
    /\ tdExists \in [TempVars -> BOOLEAN]
    /\ tdSystem \in (IF tdNative = "DOS" THEN DirNames ELSE {<<>>})
    /\ tdTmpExists \in (IF tdNative = "UNIX" THEN BOOLEAN ELSE {FALSE})
    /\ tdOut = <<>>

CallGetTempDir ==
    /\ tdPc = "start"
    /\ tdOut' = GetTempDir(tdNative, tdEnv, tdExists, tdSystem, tdTmpExists)
    /\ tdPc' = "done"
    /\ UNCHANGED <<tdNative, tdEnv, tdExists, tdSystem, tdTmpExists>>

-----------------------------------------------------------------------------
(* Claims about wxFileName::GetTempDir                                     *)

TdSeparators == SeqSet(GetPathSeparators("NATIVE", tdNative))
EndsWithSeparator(dir) == dir # <<>> /\ dir[Len(dir)] \in TdSeparators
OnlySeparators(dir) == dir # <<>> /\ \A i \in 1..Len(dir) : dir[i] \in TdSeparators

\* the directory GetTempDir starts from, empty if it falls back
TdFound == TempDirFound(tdNative, tdEnv, tdExists, tdSystem)

\* C8 as stated: the returned directory never ends with a path separator.
C8_NeverEndsWithSeparator ==
    tdPc = "done" => ~EndsWithSeparator(tdOut)

\* C8: GetTempDir returns a string that is not empty and does not end with a
\* path separator, whichever of TMPDIR, TMP, TEMP, the system default or the
\* fallback supplies the directory, except that a directory consisting only of
\* path separators is returned as one path separator.
C8_NoTrailingSeparatorUnlessRoot ==
    tdPc = "done" =>
        /\ tdOut # <<>>
        /\ IF OnlySeparators(TdFound)
           THEN tdOut = <<GetPathSeparators("NATIVE", tdNative)[1]>>
           ELSE ~EndsWithSeparator(tdOut)

\* TMPDIR gives nothing and the next source supplies "t/", whose trailing
\* separator is removed
C8_Witness ==
    /\ tdPc = "done"
    /\ CheckIfDirExists(tdEnv["TMPDIR"], tdExists["TMPDIR"]) = <<>>
    /\ TdFound = <<"t","/">>
    /\ tdOut = <<"t">>

-----------------------------------------------------------------------------
(* wxFileName: the object, Assign, IsAbsolute and Normalize                *)

\* a wxFileName after Clear()
ClearedFileName ==
    [volume |-> <<>>, dirs |-> <<>>, name |-> <<>>, ext |-> <<>>,
     hasExt |-> FALSE, relative |-> TRUE]

Dot == <<".">>
DotDot == <<".", ".">>

IsOk(fn) ==
    fn.dirs # <<>> \/ fn.name # <<>> \/ ~fn.relative \/ fn.ext # <<>> \/ fn.hasExt
HasVolume(fn) == fn.volume # <<>>
IsDir(fn) == fn.name = <<>> /\ fn.ext = <<>>
SetVolume(fn, volume) == [fn EXCEPT !.volume = volume]

\* the tokens wxStringTokenizer gives for delimiters that are not white
\* space: empty tokens are returned, except for one after the last delimiter
RECURSIVE Tokens(_, _)
Tokens(s, delims) ==
    IF s = <<>> THEN <<>>
    ELSE IF FindFirstOf(s, delims) = 0 THEN <<s>>
    ELSE <<SubSeq(s, 1, FindFirstOf(s, delims) - 1)>>
             \o Tokens(Mid(s, FindFirstOf(s, delims) + 1), delims)

IsNotEmptyToken(token) == token # <<>>

\* the directories DoSetPath adds for the tokens: an empty token is ignored
\* under DOS and Unix and stands for .. under Mac
TokenDirs(tokens, format) ==
    IF format = "MAC"
    THEN [i \in 1..Len(tokens) |-> IF tokens[i] = <<>> THEN DotDot ELSE tokens[i]]
    ELSE SelectSeq(tokens, IsNotEmptyToken)

\* whether DoSetPath takes the path, which is not empty, as a relative one
LeadingCharIsRelative(path, format) ==
    IF format = "MAC" THEN path[1] = ":"
    ELSE IF format = "VMS" THEN FALSE
    ELSE IF format = "DOS" THEN ~IsPathSeparator(path[1], format, format)
    ELSE path[1] # "/"

\* DoSetPath(path, format, SetPath_PathOnly), format being resolved already
DoSetPath(fn, path, format) ==
    IF path = <<>>
    THEN [fn EXCEPT !.dirs = <<>>, !.relative = TRUE]
    ELSE [fn EXCEPT
            !.relative = LeadingCharIsRelative(path, format),
            !.dirs = TokenDirs(
                        Tokens(IF format = "MAC" /\ LeadingCharIsRelative(path, format)
                               THEN Tail(path) ELSE path,
                               SeqSet(GetPathSeparators(format, format))),
                        format)]

\* Assign(volume, path, name, ext, hasExt, format), format being resolved
Assign(fn, volume, path, name, ext, hasExt, format) ==
    [DoSetPath(fn, path, format) EXCEPT
        !.volume = volume, !.ext = ext, !.name = name, !.hasExt = hasExt]

\* the path Assign(fullpath, fullname, format) splits: a separator of the
\* format is added unless the path ends with a separator of the native format
AsDirectory(dir, fmt, native) ==
    IF dir # <<>> /\ ~IsPathSeparator(dir[Len(dir)], "NATIVE", native)
    THEN Append(dir, GetPathSeparators(fmt, native)[1])
    ELSE dir

\* AssignDir(dir, format) of a new wxFileName: Assign(dir, "", format)
AssignDir(dir, fmt, native) ==
    CHOOSE assigned \in
        { Assign(ClearedFileName, split.volume, split.path, <<>>, <<>>, FALSE,
                 GetFormat(fmt, native)) :
            split \in {SplitPath(AsDirectory(dir, fmt, native), fmt, native)} } : TRUE

StartsWithTilde(dirs) == dirs # <<>> /\ dirs[1] # <<>> /\ dirs[1][1] = "~"

\* IsAbsolute(format), format being resolved already
IsAbsolute(fn, format) ==
    IF format = "UNIX" /\ StartsWithTilde(fn.dirs) THEN TRUE
    ELSE IF fn.relative THEN FALSE
    ELSE IF GetVolumeSeparator(format, format) # <<>> /\ fn.volume = <<>> THEN FALSE
    ELSE TRUE

IsCaseSensitive(format, native) == GetFormat(format, native) = "UNIX"

\* Normalize: whether the first directory is replaced by a home directory
NormTilde(fn, flags, format) ==
    format = "UNIX" /\ "TILDE" \in flags /\ fn.relative /\ StartsWithTilde(fn.dirs)

\* Normalize: curDir, the path to prepend; cwdOfVolume is what GetCwd gives
\* for the volume and home what wxGetUserHome gives
NormCurDir(fn, flags, cwd, format, native, cwdOfVolume, home) ==
    IF NormTilde(fn, flags, format) THEN AssignDir(home, "NATIVE", native)
    ELSE IF "ABSOLUTE" \in flags /\ ~IsAbsolute(fn, format)
    THEN AssignDir(IF cwd = <<>> THEN cwdOfVolume ELSE cwd, "NATIVE", native)
    ELSE ClearedFileName

\* Normalize: the path made absolute with curDir; the directories are those
\* the loop over ".", ".." and the rest goes through
NormPrepend(fn, curDir, dirs) ==
    IF ~IsOk(curDir) THEN [fn EXCEPT !.dirs = dirs]
    ELSE IF ~HasVolume(fn) /\ HasVolume(curDir)
    THEN IF ~fn.relative
         THEN [SetVolume(fn, curDir.volume) EXCEPT !.dirs = dirs]
         ELSE [SetVolume(fn, curDir.volume) EXCEPT
                  !.dirs = curDir.dirs \o dirs,
                  !.relative = IF ~curDir.relative THEN FALSE ELSE @]
    ELSE [fn EXCEPT !.dirs = curDir.dirs \o dirs,
                    !.relative = IF ~curDir.relative THEN FALSE ELSE @]

\* the loop with a ".." that has no preceding component kept for every path
RECURSIVE NormDotsKeepAll(_, _, _, _, _)
NormDotsKeepAll(dirs, n, m_dirs, m_relative, dots) ==
    IF n > Len(dirs) THEN m_dirs
    ELSE IF dots /\ dirs[n] = Dot
    THEN NormDotsKeepAll(dirs, n + 1, m_dirs, m_relative, dots)
    ELSE IF dots /\ dirs[n] = DotDot /\ m_dirs # <<>> /\ m_dirs[Len(m_dirs)] # DotDot
    THEN NormDotsKeepAll(dirs, n + 1, SubSeq(m_dirs, 1, Len(m_dirs) - 1), m_relative, dots)
    ELSE NormDotsKeepAll(dirs, n + 1, Append(m_dirs, dirs[n]), m_relative, dots)

\* Normalize: the loop dealing with ".", ".." and the rest, from dirs[n] on
RECURSIVE NormDots(_, _, _, _, _)
NormDots(dirs, n, m_dirs, m_relative, dots) ==
    IF n > Len(dirs) THEN m_dirs
    ELSE IF dots /\ dirs[n] = Dot
    THEN NormDots(dirs, n + 1, m_dirs, m_relative, dots)
    ELSE IF dots /\ dirs[n] = DotDot /\ m_dirs = <<>> /\ ~m_relative
    THEN NormDots(dirs, n + 1, m_dirs, m_relative, dots)
    ELSE IF dots /\ dirs[n] = DotDot /\ m_dirs # <<>> /\ m_dirs[Len(m_dirs)] # DotDot
    THEN NormDots(dirs, n + 1, SubSeq(m_dirs, 1, Len(m_dirs) - 1), m_relative, dots)
    ELSE NormDots(dirs, n + 1, Append(m_dirs, dirs[n]), m_relative, dots)

LowerDirs(dirs) == [i \in 1..Len(dirs) |-> Lower(dirs[i])]

\* Normalize: the change of case
NormCase(fn, flags, format) ==
    IF "CASE" \in flags /\ format # "UNIX"
    THEN [fn EXCEPT !.volume = Lower(@), !.name = Lower(@), !.ext = Lower(@),
                    !.dirs = LowerDirs(@)]
    ELSE fn

NormLoop(fn, flags) ==
    [fn EXCEPT !.dirs = NormDots(fn.dirs, 1, <<>>, fn.relative, "DOTS" \in flags)]

\* Normalize(flags, cwd, format) for the flags wxPATH_NORM_DOTS, _ABSOLUTE,
\* _TILDE, _CASE and _LONG; the long form of a path is taken to be the path.
\* The steps follow each other as in the code: curDir is set up, the path is
\* made absolute with it, the loop deals with the dots, the case is changed.
Normalize(fn, flags, cwd, fmt, native, cwdOfVolume, home) ==
    CHOOSE normalized \in
        { NormCase(looped, flags, GetFormat(fmt, native)) :
            looped \in
              { NormLoop(absolute, flags) :
                  absolute \in
                    { NormPrepend(withCurDir[1], withCurDir[2],
                                  IF NormTilde(withCurDir[1], flags, GetFormat(fmt, native))
                                  THEN Tail(withCurDir[1].dirs)
                                  ELSE withCurDir[1].dirs) :
                        withCurDir \in
                          { <<this, NormCurDir(this, flags, cwd, GetFormat(fmt, native),
                                               native, cwdOfVolume, home)>> :
                              this \in {fn} } } } } : TRUE

MakeAbsolute(fn, cwd, fmt, native, cwdOfVolume, home) ==
    Normalize(fn, {"DOTS", "ABSOLUTE", "TILDE"}, cwd, fmt, native, cwdOfVolume, home)

\* ---- the calls of Normalize ----

MaxDirs == 3
DirComponents == {Dot, DotDot, <<"a">>, <<"~">>}
DirLists == UNION {[1..n -> DirComponents] : n \in 0..MaxDirs}
NormFlags == SUBSET {"DOTS", "ABSOLUTE", "TILDE", "CASE"}
\* the formats passed: the native one by default, or the other one
FormatsFor(native) == {"NATIVE", "DOS", "UNIX"} \ {native}
\* the cwd arguments: none, absolute ones and relative ones
CwdArguments ==
    { <<>>, <<"/","b">>, <<".",".","/","b">>, <<"C",":","\\","b">> }
\* what wxGetCwd gives
NativeCwds(native) ==
    IF native = "DOS" THEN { <<"C",":","\\","c">>, <<"D",":","\\">> }
    ELSE { <<"/","c">>, <<"/">> }
\* what wxGetUserHome gives; it may be a path that is not absolute
UserHomes == { <<"/","h">>, <<"h">> }

NzIdle ==
    /\ nzPc = "idle"
    /\ nzNative = "UNIX"
    /\ nzFormat = "NATIVE"
    /\ nzFlags = {}
    /\ nzCwd = <<>>
    /\ nzBefore = ClearedFileName
    /\ nzObj = ClearedFileName

NzInit ==
    /\ nzPc = "start"
    /\ nzNative \in {"DOS", "UNIX"}
    /\ nzFormat \in FormatsFor(nzNative)
    /\ nzFlags \in NormFlags
    /\ nzCwd \in CwdArguments
    /\ \E volume \in {<<>>, <<"C">>}, dirs \in DirLists, relative \in BOOLEAN :
          nzObj = [ClearedFileName EXCEPT !.volume = volume, !.dirs = dirs,
                                          !.name = <<"F">>, !.relative = relative]
    /\ nzBefore = nzObj

CallNormalize ==
    /\ nzPc = "start"
    /\ \E cwdOfVolume \in NativeCwds(nzNative), home \in UserHomes :
          nzObj' = Normalize(nzObj, nzFlags, nzCwd, nzFormat, nzNative,
                             cwdOfVolume, home)
    /\ nzPc' = "done"
    /\ UNCHANGED <<nzNative, nzFormat, nzFlags, nzCwd, nzBefore>>

-----------------------------------------------------------------------------
(* Claims about wxFileName::Normalize                                      *)

NoDotDot(dirs) == \A i \in 1..Len(dirs) : dirs[i] # DotDot
\* every ".." of the list belongs to a run of them at its start
DotDotOnlyLeading(dirs) ==
    \A i \in 1..Len(dirs) : dirs[i] = DotDot => \A j \in 1..i : dirs[j] = DotDot

C10_WitnessAbsolute ==
    /\ nzPc = "done"
    /\ "DOTS" \in nzFlags
    /\ nzBefore.dirs = <<DotDot, Dot, DotDot>>
    /\ ~nzObj.relative
    /\ nzObj.dirs = <<>>

-----------------------------------------------------------------------------
(* wxFileName::MakeRelativeTo                                              *)

IsSameAs(a, b, withCase) == IF withCase THEN a = b ELSE Lower(a) = Lower(b)

\* the number of directories removed at the top of both lists
RECURSIVE CommonDirs(_, _, _)
CommonDirs(dirs, baseDirs, withCase) ==
    IF dirs # <<>> /\ baseDirs # <<>> /\ IsSameAs(dirs[1], baseDirs[1], withCase)
    THEN 1 + CommonDirs(Tail(dirs), Tail(baseDirs), withCase)
    ELSE 0

\* the directories left, after as many ".." as fnBase has directories left
RelativeDirs(dirs, baseDirs, common) ==
    [i \in 1..(Len(baseDirs) - common) |-> DotDot]
        \o SubSeq(dirs, common + 1, Len(dirs))

SameVolume(fn, fnBase, fmt, native) ==
    IsSameAs(fn.volume, fnBase.volume, IsCaseSensitive(fmt, native))

\* MakeRelativeTo once the volumes were found to be the same
MakeRelative(fn, fnBase, format) ==
    [fn EXCEPT
        !.volume = <<>>,
        !.dirs = IF /\ format \in {"UNIX", "DOS"}
                    /\ IsDir(fn)
                    /\ RelativeDirs(fn.dirs, fnBase.dirs,
                          CommonDirs(fn.dirs, fnBase.dirs, format = "UNIX")) = <<>>
                 THEN <<Dot>>
                 ELSE RelativeDirs(fn.dirs, fnBase.dirs,
                          CommonDirs(fn.dirs, fnBase.dirs, format = "UNIX")),
        !.relative = TRUE]

\* the pathBase arguments
PathBases ==
    { <<>>, <<"a">>, <<"/","a">>, <<"\\","a">>, <<"C",":","\\","a">>,
      <<"c",":","\\","a">>, <<"D",":","\\","a","\\","b">> }

MaxBaseDirs == 2
\* the directory lists of the file names made relative
RelDirLists == UNION {[1..n -> DirComponents] : n \in 0..MaxBaseDirs}

MrIdle ==
    /\ mrPc = "idle"
    /\ mrNative = "UNIX"
    /\ mrFormat = "NATIVE"
    /\ mrPathBase = <<>>
    /\ mrBefore = ClearedFileName
    /\ mrObj = ClearedFileName
    /\ mrCanon = ClearedFileName
    /\ mrBase = ClearedFileName
    /\ mrRet = FALSE

MrInit ==
    /\ mrPc = "start"
    /\ mrNative \in {"DOS", "UNIX"}
    /\ mrFormat \in FormatsFor(mrNative)
    /\ mrPathBase \in PathBases
    /\ \E volume \in {<<>>, <<"C">>, <<"D">>}, dirs \in RelDirLists,
          name \in {<<>>, <<"f">>}, relative \in BOOLEAN :
          mrObj = [ClearedFileName EXCEPT !.volume = volume, !.dirs = dirs,
                                          !.name = name, !.relative = relative]
    /\ mrBefore = mrObj
    /\ mrCanon = ClearedFileName
    /\ mrBase = ClearedFileName
    /\ mrRet = FALSE

CallMakeRelativeTo ==
    /\ mrPc = "start"
    /\ \E cwd \in NativeCwds(mrNative) \cup {<<>>}, home \in UserHomes :
          \E cwdOfVolume \in (IF cwd = <<>> THEN NativeCwds(mrNative) ELSE {cwd}) :
          \* both paths are brought to canonical form
          /\ mrCanon' = Normalize(MakeAbsolute(mrObj, cwd, mrFormat, mrNative,
                                               cwdOfVolume, home),
                                  {"LONG"}, cwd, mrFormat, mrNative, cwdOfVolume, home)
          /\ mrBase' = Normalize(MakeAbsolute(AssignDir(mrPathBase, mrFormat, mrNative),
                                              cwd, mrFormat, mrNative, cwdOfVolume, home),
                                 {"LONG"}, cwd, mrFormat, mrNative, cwdOfVolume, home)
    /\ mrRet' = SameVolume(mrCanon', mrBase', mrFormat, mrNative)
    /\ mrObj' = IF SameVolume(mrCanon', mrBase', mrFormat, mrNative)
                THEN MakeRelative(mrCanon', mrBase', GetFormat(mrFormat, mrNative))
                ELSE mrCanon'
    /\ mrPc' = "done"
    /\ UNCHANGED <<mrNative, mrFormat, mrPathBase, mrBefore>>

-----------------------------------------------------------------------------
(* Claims about wxFileName::MakeRelativeTo                                 *)

\* the volume pathBase names
MrBaseVolume == AssignDir(mrPathBase, mrFormat, mrNative).volume

\* the file name and pathBase both have a volume, and the two differ
MrDifferentVolumes ==
    /\ mrBefore.volume # <<>>
    /\ MrBaseVolume # <<>>
    /\ Lower(mrBefore.volume) # Lower(MrBaseVolume)

\* C9: when the file name and pathBase lie on different volumes,
\* MakeRelativeTo returns false and the volume, directory list, name,
\* extension and relative flag of the object are the same as before the call.
C9_NothingDoneOnDifferentVolumes ==
    (mrPc = "done" /\ MrDifferentVolumes) =>
        /\ mrRet = FALSE
        /\ mrObj.volume = mrBefore.volume
        /\ mrObj.dirs = mrBefore.dirs
        /\ mrObj.name = mrBefore.name
        /\ mrObj.ext = mrBefore.ext
        /\ mrObj.relative = mrBefore.relative

\* what does hold on different volumes: false is returned, and the volume,
\* the name and the extension are kept
C9_FalseOnDifferentVolumes ==
    (mrPc = "done" /\ MrDifferentVolumes) =>
        /\ mrRet = FALSE
        /\ mrObj.volume = mrBefore.volume
        /\ mrObj.name = mrBefore.name
        /\ mrObj.ext = mrBefore.ext

\* an absolute file name on another volume than pathBase does not lose its
\* "a/.." directories when false is returned
C9_AbsoluteKeepsDirs ==
    ~ /\ mrPc = "done"
      /\ MrDifferentVolumes
      /\ ~mrBefore.relative
      /\ mrBefore.dirs = <<<<"a">>, DotDot>>
      /\ mrRet = FALSE
      /\ mrObj.dirs = <<>>

-----------------------------------------------------------------------------
(* wxWebRequestWinHTTP                                                     *)

wxWEBREQUEST_BUFFER_SIZE == 2
MaxData == 3
MaxSends == 3

\* the request data: byte i of the stream has the value i
DataByte(i) == i
AllData(size) == [i \in 1..size |-> DataByte(i)]
NoBuffer == [i \in 1..wxWEBREQUEST_BUFFER_SIZE |-> 0]

\* DoWriteData: the size of the next write
DataWriteSize(written, size) ==
    IF written + wxWEBREQUEST_BUFFER_SIZE > size
    THEN size - written ELSE wxWEBREQUEST_BUFFER_SIZE

\* how many bytes m_dataStream->Read gives at position pos
StreamRead(pos, size, count) == IF pos + count > size THEN size - pos ELSE count

\* DoWriteData: the buffer after m_dataStream->Read; Clear() and GetWriteBuf()
\* leave the bytes of the buffer as they were, so those the stream did not give
\* are the ones the buffer held before
BufferRead(buffer, pos, size, count) ==
    [i \in 1..wxWEBREQUEST_BUFFER_SIZE |->
        IF i <= StreamRead(pos, size, count) THEN DataByte(pos + i) ELSE buffer[i]]

\* DoWriteData: the bytes WinHttpWriteData is given
BufferWritten(buffer, count) == [i \in 1..count |-> buffer[i]]

\* the value of m_tryCredentialsFromURL that stays the same
KeepTrying(try) == try

\* the value of m_tryCredentialsFromURL once the credentials were used
TriedCredentialsFromURL(try) == FALSE

\* REQUEST_ERROR with every cancelled operation taken as expected
RequestErrorStateAnyCancel(dwError, wasCancelled) ==
    IF dwError = "ERROR_WINHTTP_OPERATION_CANCELLED" THEN "Cancelled" ELSE "Failed"

\* HandleCallback, WINHTTP_CALLBACK_STATUS_REQUEST_ERROR: the new state
RequestErrorState(dwError, wasCancelled) ==
    IF dwError = "ERROR_WINHTTP_OPERATION_CANCELLED" /\ wasCancelled
    THEN "Cancelled" ELSE "Failed"

\* m_dataStream->SeekI(0)
SeekI0(pos) == 0

NoPending == [op |-> "none", len |-> 0]
NoLast == [step |-> "none", auth |-> "none", hadTry |-> FALSE, sends |-> 0,
           dwError |-> "none", wasCancelled |-> FALSE]
WinHttpErrors == {"ERROR_WINHTTP_OPERATION_CANCELLED", "ERROR_WINHTTP_TIMEOUT"}
\* what InitAuthIfNeeded gives for the status of the response
AuthResults == {"Ok", "Unauthorized", "Failed"}

WrIdle ==
    /\ wrMode = "none"
    /\ wrPc = "off"
    /\ wrState = "Idle"
    /\ wrResult = "none"
    /\ m_dataSize = 0
    /\ m_dataWritten = 0
    /\ wrStreamPos = 0
    /\ m_dataWriteBuffer = NoBuffer
    /\ wrWire = <<>>
    /\ m_tryCredentialsFromURL = FALSE
    /\ m_cancelled = FALSE
    /\ wrPending = NoPending
    /\ wrSends = 0
    /\ wrUrlTries = 0
    /\ wrShort = FALSE
    /\ wrLast = NoLast

WrInit ==
    /\ wrMode \in {"sync", "async"}
    /\ wrPc = "idle"
    /\ wrState = "Idle"
    /\ wrResult = "none"
    /\ m_dataSize \in 0..MaxData
    /\ m_dataWritten = 0
    /\ wrStreamPos = 0
    /\ m_dataWriteBuffer = NoBuffer
    /\ wrWire = <<>>
    /\ m_tryCredentialsFromURL = FALSE
    /\ m_cancelled = FALSE
    /\ wrPending = NoPending
    /\ wrSends = 0
    /\ wrUrlTries = 0
    /\ wrShort = FALSE
    /\ wrLast = NoLast

\* ---- Execute, the synchronous request ----

\* Execute up to its loop: DoPrepareRequest, which remembers the credentials
\* of the URL if it has any
ExPrepare ==
    /\ wrMode = "sync" /\ wrPc = "idle"
    /\ \E prepared \in BOOLEAN, userInURL \in BOOLEAN :
          IF prepared
          THEN /\ m_tryCredentialsFromURL' = userInURL
               /\ wrPc' = "send"
               /\ wrResult' = wrResult
          ELSE /\ m_tryCredentialsFromURL' = m_tryCredentialsFromURL
               /\ wrPc' = "returned"
               /\ wrResult' = "Failed"
    /\ UNCHANGED <<wrMode, wrState, m_dataSize, m_dataWritten, wrStreamPos,
                   m_dataWriteBuffer, wrWire, m_cancelled, wrPending, wrSends,
                   wrUrlTries, wrShort, wrLast>>

\* the loop of Execute: SendRequest
ExSend ==
    /\ wrMode = "sync" /\ wrPc = "send" /\ wrSends < MaxSends
    /\ wrSends' = wrSends + 1
    /\ wrWire' = <<>>
    /\ m_dataWritten' = IF m_dataSize # 0 THEN 0 ELSE m_dataWritten
    /\ \E sent \in BOOLEAN :
          IF sent
          THEN /\ wrPc' = IF m_dataWritten' < m_dataSize THEN "write" ELSE "response"
               /\ wrResult' = wrResult
          ELSE /\ wrPc' = "returned"
               /\ wrResult' = "Failed"
    /\ UNCHANGED <<wrMode, wrState, m_dataSize, wrStreamPos, m_dataWriteBuffer,
                   m_tryCredentialsFromURL, m_cancelled, wrPending, wrUrlTries,
                   wrShort, wrLast>>

\* the loop of Execute: one DoWriteData(&written) of the loop writing the data
ExWrite ==
    /\ wrMode = "sync" /\ wrPc = "write" /\ m_dataWritten < m_dataSize
    /\ m_dataWriteBuffer' =
           BufferRead(m_dataWriteBuffer, wrStreamPos, m_dataSize,
                      DataWriteSize(m_dataWritten, m_dataSize))
    /\ wrStreamPos' = wrStreamPos + StreamRead(wrStreamPos, m_dataSize,
                                        DataWriteSize(m_dataWritten, m_dataSize))
    /\ \E ok \in BOOLEAN, written \in {0, DataWriteSize(m_dataWritten, m_dataSize)} :
          IF ~ok
          THEN /\ wrPc' = "returned"
               /\ wrResult' = "Failed"
               /\ UNCHANGED <<m_dataWritten, wrWire, wrShort>>
          ELSE /\ wrWire' = wrWire \o BufferWritten(m_dataWriteBuffer', written)
               /\ m_dataWritten' = m_dataWritten + written
               /\ wrShort' = (wrShort \/ written = 0)
               /\ wrPc' = IF written = 0 \/ m_dataWritten' >= m_dataSize
                          THEN "response" ELSE "write"
               /\ wrResult' = wrResult
    /\ UNCHANGED <<wrMode, wrState, m_dataSize, m_tryCredentialsFromURL,
                   m_cancelled, wrPending, wrSends, wrUrlTries, wrLast>>

\* the loop of Execute: CreateResponse, InitAuthIfNeeded and the use of the
\* credentials of the URL
ExResponse ==
    /\ wrMode = "sync" /\ wrPc = "response"
    /\ \E created \in BOOLEAN, auth \in AuthResults, credentialsSet \in BOOLEAN :
          IF ~created \/ auth = "Failed"
          THEN /\ wrPc' = "returned"
               /\ wrResult' = "Failed"
               /\ UNCHANGED <<m_tryCredentialsFromURL, wrUrlTries, wrStreamPos,
                              m_dataWritten, wrLast>>
          ELSE /\ wrLast' = [NoLast EXCEPT !.step = "response", !.auth = auth,
                                !.hadTry = m_tryCredentialsFromURL, !.sends = wrSends]
               /\ IF auth = "Unauthorized"
                  THEN IF ~m_tryCredentialsFromURL
                       THEN /\ wrPc' = "returned"
                            /\ wrResult' = "Unauthorized"
                            /\ UNCHANGED <<m_tryCredentialsFromURL, wrUrlTries,
                                           wrStreamPos, m_dataWritten>>
                       ELSE /\ m_tryCredentialsFromURL' =
                                   TriedCredentialsFromURL(m_tryCredentialsFromURL)
                            /\ wrUrlTries' = wrUrlTries + 1
                            /\ IF ~credentialsSet
                               THEN /\ wrPc' = "returned"
                                    /\ wrResult' = "Failed"
                                    /\ UNCHANGED <<wrStreamPos, m_dataWritten>>
                               ELSE /\ wrPc' = "send"
                                    /\ wrResult' = wrResult
                                    /\ wrStreamPos' = IF m_dataSize # 0
                                                      THEN SeekI0(wrStreamPos)
                                                      ELSE wrStreamPos
                                    /\ m_dataWritten' = IF m_dataSize # 0 THEN 0
                                                        ELSE m_dataWritten
                  ELSE /\ wrPc' = "read"
                       /\ wrResult' = wrResult
                       /\ UNCHANGED <<m_tryCredentialsFromURL, wrUrlTries,
                                      wrStreamPos, m_dataWritten>>
    /\ UNCHANGED <<wrMode, wrState, m_dataSize, m_dataWriteBuffer, wrWire,
                   m_cancelled, wrPending, wrSends, wrShort>>

\* the end of Execute: the response data is read and the result is that of
\* the HTTP status
ExRead ==
    /\ wrMode = "sync" /\ wrPc = "read"
    /\ wrPc' = "returned"
    /\ wrResult' \in {"Completed", "Failed"}
    /\ UNCHANGED <<wrMode, wrState, m_dataSize, m_dataWritten, wrStreamPos,
                   m_dataWriteBuffer, wrWire, m_tryCredentialsFromURL, m_cancelled,
                   wrPending, wrSends, wrUrlTries, wrShort, wrLast>>

\* ---- Start and the callbacks, the asynchronous request ----

\* SendRequest of a request that is in the given state if the sending starts
SendRequest(state) ==
    /\ wrSends' = wrSends + 1
    /\ wrWire' = <<>>
    /\ m_dataWritten' = IF m_dataSize # 0 THEN 0 ELSE m_dataWritten
    /\ \E sent \in BOOLEAN :
          IF sent
          THEN wrState' = state /\ wrPending' = [op |-> "send", len |-> 0]
          ELSE wrState' = "Failed" /\ wrPending' = NoPending

\* wxWebAuthChallengeWinHTTP::SetCredentials, written being m_dataWritten
SetCredentials(written) ==
    \E credentialsSet \in BOOLEAN :
        IF credentialsSet
        THEN SendRequest("Active")
        ELSE /\ wrState' = "Failed"
             /\ wrPending' = NoPending
             /\ m_dataWritten' = written
             /\ UNCHANGED <<wrSends, wrWire>>

\* WriteData, written being m_dataWritten when it is called
WriteData(written) ==
    IF written = m_dataSize
    THEN /\ UNCHANGED <<wrStreamPos, m_dataWriteBuffer>>
         /\ \E created \in BOOLEAN, auth \in AuthResults, reading \in BOOLEAN :
               IF ~created
               THEN /\ wrState' = "Failed"
                    /\ wrPending' = NoPending
                    /\ m_dataWritten' = written
                    /\ UNCHANGED <<wrSends, wrWire, m_tryCredentialsFromURL,
                                   wrUrlTries, wrLast>>
               ELSE /\ wrLast' = [NoLast EXCEPT !.step = "response", !.auth = auth,
                                     !.hadTry = m_tryCredentialsFromURL,
                                     !.sends = wrSends]
                    /\ IF auth = "Unauthorized" /\ m_tryCredentialsFromURL
                       THEN /\ m_tryCredentialsFromURL' =
                                   TriedCredentialsFromURL(m_tryCredentialsFromURL)
                            /\ wrUrlTries' = wrUrlTries + 1
                            /\ SetCredentials(written)
                       ELSE /\ m_dataWritten' = written
                            /\ UNCHANGED <<wrSends, wrWire, m_tryCredentialsFromURL,
                                           wrUrlTries>>
                            /\ IF auth \in {"Unauthorized", "Failed"}
                               THEN wrState' = auth /\ wrPending' = NoPending
                               ELSE IF reading
                               THEN /\ wrState' = wrState
                                    /\ wrPending' = [op |-> "read", len |-> 0]
                               ELSE wrState' = "Failed" /\ wrPending' = NoPending
    ELSE /\ m_dataWriteBuffer' =
               BufferRead(m_dataWriteBuffer, wrStreamPos, m_dataSize,
                          DataWriteSize(written, m_dataSize))
         /\ wrStreamPos' = wrStreamPos + StreamRead(wrStreamPos, m_dataSize,
                                             DataWriteSize(written, m_dataSize))
         /\ m_dataWritten' = written
         /\ \E ok \in BOOLEAN :
               IF ok
               THEN /\ wrPending' = [op |-> "write",
                                     len |-> DataWriteSize(written, m_dataSize)]
                    /\ wrWire' = wrWire \o BufferWritten(m_dataWriteBuffer',
                                              DataWriteSize(written, m_dataSize))
                    /\ wrState' = wrState
               ELSE /\ wrPending' = NoPending
                    /\ wrWire' = wrWire
                    /\ wrState' = "Failed"
         /\ UNCHANGED <<wrSends, m_tryCredentialsFromURL, wrUrlTries, wrLast>>

Start ==
    /\ wrMode = "async" /\ wrPc = "idle"
    /\ wrPc' = "started"
    /\ \E prepared \in BOOLEAN, userInURL \in BOOLEAN, callbackSet \in BOOLEAN :
          IF prepared /\ callbackSet
          THEN /\ m_tryCredentialsFromURL' = userInURL
               /\ SendRequest("Active")
          ELSE /\ m_tryCredentialsFromURL' = (prepared /\ userInURL)
               /\ wrState' = "Failed"
               /\ UNCHANGED <<m_dataWritten, wrWire, wrSends, wrPending>>
    /\ UNCHANGED <<wrMode, wrResult, m_dataSize, wrStreamPos, m_dataWriteBuffer,
                   m_cancelled, wrUrlTries, wrShort, wrLast>>

\* HandleCallback, WINHTTP_CALLBACK_STATUS_SENDREQUEST_COMPLETE
CbSendRequestComplete ==
    /\ wrPending.op = "send" /\ ~m_cancelled /\ wrSends <= MaxSends
    /\ WriteData(m_dataWritten)
    /\ UNCHANGED <<wrMode, wrPc, wrResult, m_dataSize, m_cancelled, wrShort>>

\* HandleCallback, WINHTTP_CALLBACK_STATUS_WRITE_COMPLETE
CbWriteComplete ==
    /\ wrPending.op = "write" /\ ~m_cancelled /\ wrSends <= MaxSends
    /\ WriteData(m_dataWritten + wrPending.len)
    /\ UNCHANGED <<wrMode, wrPc, wrResult, m_dataSize, m_cancelled, wrShort>>

\* HandleCallback, WINHTTP_CALLBACK_STATUS_READ_COMPLETE
CbReadComplete ==
    /\ wrPending.op = "read" /\ ~m_cancelled
    /\ \E received \in BOOLEAN, reading \in BOOLEAN :
          IF received
          THEN IF reading
               THEN UNCHANGED <<wrState, wrPending>>
               ELSE /\ wrPending' = NoPending
                    /\ wrState' = IF m_cancelled THEN wrState ELSE "Failed"
          ELSE /\ wrPending' = NoPending
               /\ wrState' \in {"Completed", "Failed"}
    /\ UNCHANGED <<wrMode, wrPc, wrResult, m_dataSize, m_dataWritten, wrStreamPos,
                   m_dataWriteBuffer, wrWire, m_tryCredentialsFromURL, m_cancelled,
                   wrSends, wrUrlTries, wrShort, wrLast>>

\* HandleCallback, WINHTTP_CALLBACK_STATUS_REQUEST_ERROR
CbRequestError ==
    /\ wrPending.op # "none"
    /\ \E dwError \in WinHttpErrors :
          /\ wrState' = RequestErrorState(dwError, m_cancelled)
          /\ wrLast' = [NoLast EXCEPT !.step = "error", !.dwError = dwError,
                                      !.wasCancelled = m_cancelled]
    /\ wrPending' = NoPending
    /\ UNCHANGED <<wrMode, wrPc, wrResult, m_dataSize, m_dataWritten, wrStreamPos,
                   m_dataWriteBuffer, wrWire, m_tryCredentialsFromURL, m_cancelled,
                   wrSends, wrUrlTries, wrShort>>

\* Cancel() of an active request: the handle is closed
Cancel ==
    /\ wrMode = "async" /\ wrState = "Active" /\ ~m_cancelled
    /\ m_cancelled' = TRUE
    /\ UNCHANGED <<wrMode, wrPc, wrState, wrResult, m_dataSize, m_dataWritten,
                   wrStreamPos, m_dataWriteBuffer, wrWire, m_tryCredentialsFromURL,
                   wrPending, wrSends, wrUrlTries, wrShort, wrLast>>

\* the application sets credentials on the challenge of an unauthorized request
AppSetCredentials ==
    /\ wrMode = "async" /\ wrState = "Unauthorized" /\ wrSends < MaxSends
    /\ SetCredentials(m_dataWritten)
    /\ UNCHANGED <<wrMode, wrPc, wrResult, m_dataSize, wrStreamPos,
                   m_dataWriteBuffer, m_tryCredentialsFromURL, m_cancelled,
                   wrUrlTries, wrShort, wrLast>>

\* ---- C11 ----

\* a response that reports the request unauthorized is handled in this step
UnauthorizedResponseHandled ==
    /\ wrLast' # wrLast
    /\ wrLast'.step = "response"
    /\ wrLast'.auth = "Unauthorized"

\* C11: the credentials of the URL are tried at most once per request, even if
\* the server refuses them: the synchronous Execute sends the request at most
\* twice, and once they were tried, an unauthorized response ends Execute with
\* the unauthorized result and, in asynchronous mode, puts the request into the
\* unauthorized state without sending it again.
C11_CredentialsFromURLTriedOnce ==
    /\ [](wrUrlTries <= 1)
    /\ [](wrMode = "sync" => wrSends <= 2)
    /\ [][(UnauthorizedResponseHandled /\ wrUrlTries = 1)
             => /\ wrSends' = wrSends
                /\ wrUrlTries' = 1
                /\ wrMode = "async" =>
                       wrState' = "Unauthorized" /\ wrPending' = NoPending
                /\ wrMode = "sync" =>
                       wrPc' = "returned" /\ wrResult' = "Unauthorized"]_vars

\* the asynchronous request was sent again with the credentials of the URL,
\* the server refused them too, and the request is unauthorized
C11_Witness ==
    /\ wrMode = "async"
    /\ wrUrlTries = 1
    /\ wrLast.step = "response" /\ wrLast.auth = "Unauthorized"
    /\ ~wrLast.hadTry
    /\ wrLast.sends = 2 /\ wrSends = 2
    /\ wrState = "Unauthorized"
    /\ ~m_tryCredentialsFromURL

\* ---- C12 ----

\* the bytes given to WinHttpWriteData since the last SendRequest are the
\* request data from its first byte on
WrittenFromFirstByte == wrWire = SubSeq(AllData(m_dataSize), 1, Len(wrWire))

\* the request was sent again and all m_dataSize bytes were written after that
ResentAndWritten ==
    /\ wrSends >= 2
    /\ m_dataSize > 0
    /\ Len(wrWire) = m_dataSize

\* C12: whenever a request with data is sent again after credentials were set,
\* in synchronous and in asynchronous mode, what is written after that is the
\* request data from its first byte on, and a write that completes has written
\* all of it.
C12_ResentDataFromFirstByte ==
    (wrSends >= 2 /\ m_dataSize > 0) =>
        /\ WrittenFromFirstByte
        /\ m_dataWritten = m_dataSize => wrWire = AllData(m_dataSize)

\* C12 for the synchronous Execute alone, which rewinds the stream
C12_SyncResentDataFromFirstByte ==
    (wrMode = "sync" /\ wrSends >= 2 /\ m_dataSize > 0) =>
        /\ WrittenFromFirstByte
        /\ m_dataWritten = m_dataSize => wrWire = AllData(m_dataSize)

\* the first sending writes the request data from its first byte in both modes
C12_FirstSendFromFirstByte ==
    (wrSends = 1 /\ m_dataSize > 0) =>
        /\ WrittenFromFirstByte
        /\ m_dataWritten = m_dataSize => wrWire = AllData(m_dataSize)

\* the asynchronous request sent again reads its stream from the start: each
\* write begins where the bytes written so far end (violated: the stream is
\* still where the first sending left it, at its end)
C12_AsyncStreamRewound ==
    (wrMode = "async" /\ wrSends >= 2 /\ wrPending.op = "write") =>
        wrStreamPos = Len(wrWire)

\* data that fits into one buffer is still in the buffer when the asynchronous
\* request is sent again, and so it is written again as it was
C12_AsyncSmallDataFromFirstByte ==
    (wrMode = "async" /\ wrSends >= 2 /\ m_dataSize > 0
        /\ m_dataSize <= wxWEBREQUEST_BUFFER_SIZE) =>
        /\ WrittenFromFirstByte
        /\ m_dataWritten = m_dataSize => wrWire = AllData(m_dataSize)

\* the synchronous request was sent again and wrote all of its data
C12_SyncWitness == wrMode = "sync" /\ ResentAndWritten /\ m_dataSize = MaxData

\* ---- C13 ----

\* C13: after a WINHTTP_CALLBACK_STATUS_REQUEST_ERROR callback the request is
\* in State_Cancelled if and only if the error reported was
\* ERROR_WINHTTP_OPERATION_CANCELLED and Cancel() had been called on the
\* request; in every other case it is in the failed state.
C13_RequestErrorCancelledOrFailed ==
    wrLast.step = "error" =>
        /\ wrState \in {"Cancelled", "Failed"}
        /\ wrState = "Cancelled" <=>
               (wrLast.dwError = "ERROR_WINHTTP_OPERATION_CANCELLED"
                    /\ wrLast.wasCancelled)

\* the operation of a request that Cancel() was called on ended with
\* ERROR_WINHTTP_OPERATION_CANCELLED, and the request is cancelled
C13_Witness ==
    /\ wrLast.step = "error"
    /\ wrLast.dwError = "ERROR_WINHTTP_OPERATION_CANCELLED"
    /\ m_cancelled
    /\ wrState = "Cancelled"

\* the same error without Cancel() having been called: the request failed
C13_WitnessNotCancelled ==
    /\ wrLast.step = "error"
    /\ wrLast.dwError = "ERROR_WINHTTP_OPERATION_CANCELLED"
    /\ ~m_cancelled
    /\ wrState = "Failed"

\* another error after Cancel() had been called: the request failed
C13_WitnessOtherError ==
    /\ wrLast.step = "error"
    /\ wrLast.dwError = "ERROR_WINHTTP_TIMEOUT"
    /\ m_cancelled
    /\ wrState = "Failed"

(***************************************************************************)
(* wxGStreamerMediaBackend: the callbacks of the GstPlayer                 *)
(***************************************************************************)

\* how many media events the model lets the backend send and queue
MaxEvents == 5

\* what the handlers of the control do with an event sent to them
HandlerOutcomes == {"unhandled", "allowed", "vetoed"}

Sent(type) == [how |-> "sent", type |-> type]
Queued(type) == [how |-> "queued", type |-> type]

\* wxMediaBackendCommonBase::SendStopEvent: true unless a handler processed
\* the event and vetoed it
SendStopEvent(handler) == handler # "vetoed"

\* an EndOfStream that queues the finish event whatever the stop event gives
EndOfStreamAlwaysFinish(handler) ==
    <<Sent("wxEVT_MEDIA_STOP"), Queued("wxEVT_MEDIA_FINISHED")>>

\* EndOfStream: the events it sends and queues
EndOfStreamEvents(handler) ==
    IF SendStopEvent(handler)
    THEN <<Sent("wxEVT_MEDIA_STOP"), Queued("wxEVT_MEDIA_FINISHED")>>
    ELSE <<Sent("wxEVT_MEDIA_STOP")>>

GstPlayerStates == {"GST_PLAYER_STATE_BUFFERING", "GST_PLAYER_STATE_PAUSED",
                    "GST_PLAYER_STATE_PLAYING", "GST_PLAYER_STATE_STOPPED"}

GstIdle ==
    /\ gstEvents = <<>>
    /\ m_last_state = "none"
    /\ m_loaded = FALSE
    /\ gstEos = 0
    /\ gstHandler = "none"

GstInit ==
    /\ gstEvents = <<>>
    /\ m_last_state = "wxMEDIASTATE_STOPPED"
    /\ m_loaded = FALSE
    /\ gstEos = 0
    /\ gstHandler = "none"

\* end_of_stream_callback
EndOfStream ==
    /\ Len(gstEvents) + 2 <= MaxEvents
    /\ \E handler \in HandlerOutcomes :
          /\ gstHandler' = handler
          /\ gstEvents' = gstEvents \o EndOfStreamEvents(handler)
    /\ gstEos' = gstEos + 1
    /\ UNCHANGED <<m_last_state, m_loaded>>

\* state_changed_callback
StateChanged ==
    /\ Len(gstEvents) + 2 <= MaxEvents
    /\ \E state \in GstPlayerStates :
          IF state \in {"GST_PLAYER_STATE_BUFFERING", "GST_PLAYER_STATE_PAUSED"}
          THEN /\ m_loaded' = TRUE
               /\ m_last_state' = "wxMEDIASTATE_PAUSED"
               /\ gstEvents' = gstEvents
                      \o (IF m_loaded THEN <<>> ELSE <<Queued("wxEVT_MEDIA_LOADED")>>)
                      \o <<Queued("wxEVT_MEDIA_PAUSE")>>
          ELSE IF state = "GST_PLAYER_STATE_PLAYING"
          THEN /\ m_last_state' = "wxMEDIASTATE_PLAYING"
               /\ gstEvents' = gstEvents \o <<Queued("wxEVT_MEDIA_PLAY")>>
               /\ UNCHANGED m_loaded
          ELSE /\ m_last_state' = "wxMEDIASTATE_STOPPED"
               /\ gstEvents' = gstEvents \o <<Queued("wxEVT_MEDIA_STOP")>>
               /\ UNCHANGED m_loaded
    /\ UNCHANGED <<gstEos, gstHandler>>

\* ---- C14 ----

\* C14: on each end-of-stream callback the backend first sends the stop event
\* and then queues the finish event, the latter only if the stop event was not
\* vetoed: a vetoed stop event is followed by no finish event for that end of
\* stream, and nothing else is sent or queued.
C14_FinishOnlyIfStopNotVetoed ==
    [][gstEos' # gstEos =>
          /\ Len(gstEvents') > Len(gstEvents)
          /\ SubSeq(gstEvents', 1, Len(gstEvents)) = gstEvents
          /\ gstEvents'[Len(gstEvents) + 1] = Sent("wxEVT_MEDIA_STOP")
          /\ IF gstHandler' = "vetoed"
             THEN Len(gstEvents') = Len(gstEvents) + 1
             ELSE /\ Len(gstEvents') = Len(gstEvents) + 2
                  /\ gstEvents'[Len(gstEvents) + 2] = Queued("wxEVT_MEDIA_FINISHED")]_vars

\* a finish event is queued only right after a stop event that was sent
C14_FinishFollowsStopSent ==
    \A i \in 1..Len(gstEvents) :
        gstEvents[i] = Queued("wxEVT_MEDIA_FINISHED") =>
            i > 1 /\ gstEvents[i - 1] = Sent("wxEVT_MEDIA_STOP")

\* after an end of stream whose stop event was let through and its finish
\* event queued, the stop event of another end of stream was vetoed: the last
\* event is that stop event
C14_Witness ==
    /\ gstEos >= 2
    /\ gstHandler = "vetoed"
    /\ gstEvents[Len(gstEvents)] = Sent("wxEVT_MEDIA_STOP")
    /\ \E i \in 1..Len(gstEvents) : gstEvents[i] = Queued("wxEVT_MEDIA_FINISHED")

-----------------------------------------------------------------------------
(* Specifications: one per component, the other components staying idle    *)

InitTag ==
    /\ TagInit
    /\ SpIdle
    /\ GbIdle
    /\ BtnIdle
    /\ VolIdle
    /\ UiIdle
    /\ TdIdle
    /\ NzIdle
    /\ MrIdle
    /\ WrIdle
    /\ GstIdle

NextTag ==
    \/ CallLanguage /\ UNCHANGED <<spVars, gbVars, btnVars, volVars, uiVars, tdVars, nzVars, mrVars, wrVars, gstVars>>
    \/ CallScript /\ UNCHANGED <<spVars, gbVars, btnVars, volVars, uiVars, tdVars, nzVars, mrVars, wrVars, gstVars>>
    \/ CallRegion /\ UNCHANGED <<spVars, gbVars, btnVars, volVars, uiVars, tdVars, nzVars, mrVars, wrVars, gstVars>>
    \/ CallExtension /\ UNCHANGED <<spVars, gbVars, btnVars, volVars, uiVars, tdVars, nzVars, mrVars, wrVars, gstVars>>
    \/ CallGetTag /\ UNCHANGED <<spVars, gbVars, btnVars, volVars, uiVars, tdVars, nzVars, mrVars, wrVars, gstVars>>
    \/ CallFromTag /\ UNCHANGED <<spVars, gbVars, btnVars, volVars, uiVars, tdVars, nzVars, mrVars, wrVars, gstVars>>

SpecTag == InitTag /\ [][NextTag]_vars

InitSplitPath ==
    /\ SpInit
    /\ TagIdle
    /\ GbIdle
    /\ BtnIdle
    /\ VolIdle
    /\ UiIdle
    /\ TdIdle
    /\ NzIdle
    /\ MrIdle
    /\ WrIdle
    /\ GstIdle

NextSplitPath ==
    \/ CallSplitPath /\ UNCHANGED <<tagVars, gbVars, btnVars, volVars, uiVars, tdVars, nzVars, mrVars, wrVars, gstVars>>

SpecSplitPath == InitSplitPath /\ [][NextSplitPath]_vars

InitBestMatch ==
    /\ GbInit
    /\ TagIdle
    /\ SpIdle
    /\ BtnIdle
    /\ VolIdle
    /\ UiIdle
    /\ TdIdle
    /\ NzIdle
    /\ MrIdle
    /\ WrIdle
    /\ GstIdle

NextBestMatch ==
    \/ CallGetBestMatch /\ UNCHANGED <<tagVars, spVars, btnVars, volVars, uiVars, tdVars, nzVars, mrVars, wrVars, gstVars>>
    \/ CallGetBestMatchSingle /\ UNCHANGED <<tagVars, spVars, btnVars, volVars, uiVars, tdVars, nzVars, mrVars, wrVars, gstVars>>

SpecBestMatch == InitBestMatch /\ [][NextBestMatch]_vars

InitButton ==
    /\ BtnInit
    /\ TagIdle
    /\ SpIdle
    /\ GbIdle
    /\ VolIdle
    /\ UiIdle
    /\ TdIdle
    /\ NzIdle
    /\ MrIdle
    /\ WrIdle
    /\ GstIdle

NextButton ==
    \/ BtnSetFocus /\ UNCHANGED <<tagVars, spVars, gbVars, volVars, uiVars, tdVars, nzVars, mrVars, wrVars, gstVars>>
    \/ BtnKillFocus /\ UNCHANGED <<tagVars, spVars, gbVars, volVars, uiVars, tdVars, nzVars, mrVars, wrVars, gstVars>>
    \/ BtnSetDefault /\ UNCHANGED <<tagVars, spVars, gbVars, volVars, uiVars, tdVars, nzVars, mrVars, wrVars, gstVars>>
    \/ AppActivate /\ UNCHANGED <<tagVars, spVars, gbVars, volVars, uiVars, tdVars, nzVars, mrVars, wrVars, gstVars>>
    \/ BeginDelete /\ UNCHANGED <<tagVars, spVars, gbVars, volVars, uiVars, tdVars, nzVars, mrVars, wrVars, gstVars>>

SpecButton == InitButton /\ [][NextButton]_vars

InitVolume ==
    /\ VolInit
    /\ TagIdle
    /\ SpIdle
    /\ GbIdle
    /\ BtnIdle
    /\ UiIdle
    /\ TdIdle
    /\ NzIdle
    /\ MrIdle
    /\ WrIdle
    /\ GstIdle

NextVolume ==
    \/ GvCall /\ UNCHANGED <<tagVars, spVars, gbVars, btnVars, uiVars, tdVars, nzVars, mrVars, wrVars, gstVars>>
    \/ GvOpen /\ UNCHANGED <<tagVars, spVars, gbVars, btnVars, uiVars, tdVars, nzVars, mrVars, wrVars, gstVars>>
    \/ GvFetch /\ UNCHANGED <<tagVars, spVars, gbVars, btnVars, uiVars, tdVars, nzVars, mrVars, wrVars, gstVars>>
    \/ GvCheck /\ UNCHANGED <<tagVars, spVars, gbVars, btnVars, uiVars, tdVars, nzVars, mrVars, wrVars, gstVars>>
    \/ GvProcess /\ UNCHANGED <<tagVars, spVars, gbVars, btnVars, uiVars, tdVars, nzVars, mrVars, wrVars, gstVars>>
    \/ GvClose /\ UNCHANGED <<tagVars, spVars, gbVars, btnVars, uiVars, tdVars, nzVars, mrVars, wrVars, gstVars>>
    \/ GvReturn /\ UNCHANGED <<tagVars, spVars, gbVars, btnVars, uiVars, tdVars, nzVars, mrVars, wrVars, gstVars>>
    \/ CancelSearch /\ UNCHANGED <<tagVars, spVars, gbVars, btnVars, uiVars, tdVars, nzVars, mrVars, wrVars, gstVars>>

FairVolume == WF_vars(GvRun /\ UNCHANGED <<tagVars, spVars, gbVars, btnVars, uiVars, tdVars, nzVars, mrVars, wrVars, gstVars>>)

SpecVolume == InitVolume /\ [][NextVolume]_vars /\ FairVolume

InitUILocale ==
    /\ UiInit
    /\ TagIdle
    /\ SpIdle
    /\ GbIdle
    /\ BtnIdle
    /\ VolIdle
    /\ TdIdle
    /\ NzIdle
    /\ MrIdle
    /\ WrIdle
    /\ GstIdle

NextUILocale ==
    \/ CallUseDefault /\ UNCHANGED <<tagVars, spVars, gbVars, btnVars, volVars, tdVars, nzVars, mrVars, wrVars, gstVars>>
    \/ CallUseLocaleName /\ UNCHANGED <<tagVars, spVars, gbVars, btnVars, volVars, tdVars, nzVars, mrVars, wrVars, gstVars>>
    \/ CallIsSet /\ UNCHANGED <<tagVars, spVars, gbVars, btnVars, volVars, tdVars, nzVars, mrVars, wrVars, gstVars>>
    \/ CallGetCurrent /\ UNCHANGED <<tagVars, spVars, gbVars, btnVars, volVars, tdVars, nzVars, mrVars, wrVars, gstVars>>

SpecUILocale == InitUILocale /\ [][NextUILocale]_vars

InitTempDir ==
    /\ TdInit
    /\ TagIdle
    /\ SpIdle
    /\ GbIdle
    /\ BtnIdle
    /\ VolIdle
    /\ UiIdle
    /\ NzIdle
    /\ MrIdle
    /\ WrIdle
    /\ GstIdle

NextTempDir ==
    \/ CallGetTempDir /\ UNCHANGED <<tagVars, spVars, gbVars, btnVars, volVars, uiVars, nzVars, mrVars, wrVars, gstVars>>

SpecTempDir == InitTempDir /\ [][NextTempDir]_vars

InitNormalize ==
    /\ NzInit
    /\ TagIdle
    /\ SpIdle
    /\ GbIdle
    /\ BtnIdle
    /\ VolIdle
    /\ UiIdle
    /\ TdIdle
    /\ MrIdle
    /\ WrIdle
    /\ GstIdle

NextNormalize ==
    \/ CallNormalize /\ UNCHANGED <<tagVars, spVars, gbVars, btnVars, volVars, uiVars, tdVars, mrVars, wrVars, gstVars>>

SpecNormalize == InitNormalize /\ [][NextNormalize]_vars

InitMakeRelativeTo ==
    /\ MrInit
    /\ TagIdle
    /\ SpIdle
    /\ GbIdle
    /\ BtnIdle
    /\ VolIdle
    /\ UiIdle
    /\ TdIdle
    /\ NzIdle
    /\ WrIdle
    /\ GstIdle

NextMakeRelativeTo ==
    \/ CallMakeRelativeTo /\ UNCHANGED <<tagVars, spVars, gbVars, btnVars, volVars, uiVars, tdVars, nzVars, wrVars, gstVars>>

SpecMakeRelativeTo == InitMakeRelativeTo /\ [][NextMakeRelativeTo]_vars

InitWebRequest ==
    /\ WrInit
    /\ TagIdle
    /\ SpIdle
    /\ GbIdle
    /\ BtnIdle
    /\ VolIdle
    /\ UiIdle
    /\ TdIdle
    /\ NzIdle
    /\ MrIdle
    /\ GstIdle

NextWebRequest ==
    \/ ExPrepare /\ UNCHANGED <<tagVars, spVars, gbVars, btnVars, volVars, uiVars, tdVars, nzVars, mrVars, gstVars>>
    \/ ExSend /\ UNCHANGED <<tagVars, spVars, gbVars, btnVars, volVars, uiVars, tdVars, nzVars, mrVars, gstVars>>
    \/ ExWrite /\ UNCHANGED <<tagVars, spVars, gbVars, btnVars, volVars, uiVars, tdVars, nzVars, mrVars, gstVars>>
    \/ ExResponse /\ UNCHANGED <<tagVars, spVars, gbVars, btnVars, volVars, uiVars, tdVars, nzVars, mrVars, gstVars>>
    \/ ExRead /\ UNCHANGED <<tagVars, spVars, gbVars, btnVars, volVars, uiVars, tdVars, nzVars, mrVars, gstVars>>
    \/ Start /\ UNCHANGED <<tagVars, spVars, gbVars, btnVars, volVars, uiVars, tdVars, nzVars, mrVars, gstVars>>
    \/ CbSendRequestComplete /\ UNCHANGED <<tagVars, spVars, gbVars, btnVars, volVars, uiVars, tdVars, nzVars, mrVars, gstVars>>
    \/ CbWriteComplete /\ UNCHANGED <<tagVars, spVars, gbVars, btnVars, volVars, uiVars, tdVars, nzVars, mrVars, gstVars>>
    \/ CbReadComplete /\ UNCHANGED <<tagVars, spVars, gbVars, btnVars, volVars, uiVars, tdVars, nzVars, mrVars, gstVars>>
    \/ CbRequestError /\ UNCHANGED <<tagVars, spVars, gbVars, btnVars, volVars, uiVars, tdVars, nzVars, mrVars, gstVars>>
    \/ Cancel /\ UNCHANGED <<tagVars, spVars, gbVars, btnVars, volVars, uiVars, tdVars, nzVars, mrVars, gstVars>>
    \/ AppSetCredentials /\ UNCHANGED <<tagVars, spVars, gbVars, btnVars, volVars, uiVars, tdVars, nzVars, mrVars, gstVars>>

SpecWebRequest == InitWebRequest /\ [][NextWebRequest]_vars

InitGStreamer ==
    /\ GstInit
    /\ TagIdle
    /\ SpIdle
    /\ GbIdle
    /\ BtnIdle
    /\ VolIdle
    /\ UiIdle
    /\ TdIdle
    /\ NzIdle
    /\ MrIdle
    /\ WrIdle

NextGStreamer ==
    \/ EndOfStream /\ UNCHANGED <<tagVars, spVars, gbVars, btnVars, volVars, uiVars, tdVars, nzVars, mrVars, wrVars>>
    \/ StateChanged /\ UNCHANGED <<tagVars, spVars, gbVars, btnVars, volVars, uiVars, tdVars, nzVars, mrVars, wrVars>>

SpecGStreamer == InitGStreamer /\ [][NextGStreamer]_vars

=============================================================================
